---- MODULE Spec2Model ----
(***************************************************************************)
(* Memory Cube: agent registry, work queue and orchestrator                *)
(* (src/unnamed/part_008, src/src/agents/orchestrator.ts), the event bus   *)
(* (src/unnamed/part_004), the graph facade over node files and index      *)
(* (src/src/core/cube.ts, src/unnamed/part_002, src/src/storage) and the   *)
(* trigger manager (src/src/events/triggers.ts) with the event log        *)
(* (src/unnamed/part_005).                                                 *)
(*                                                                         *)
(* Eleven specifications share the module:                                 *)
(*   Spec       the registry and the work queue with no graph connected    *)
(*   OrchSpec   the orchestrator over registry, work queue and task nodes  *)
(*   BusSpec    the event bus with its asynchronous emit / resume calls    *)
(*   CubeSpec   the graph facade: create, update, delete, link, unlink     *)
(*   TrigSpec   the trigger manager over the graph facade                  *)
(*   TravSpec   traversal of graphs read from node files                   *)
(*   PrioSpec   the work queue over three task nodes with due dates        *)
(*   NotifySpec the orchestrator with the event bus set                    *)
(*   LogSpec    the event log: append, rotation, clear, reopening          *)
(*   RestartSpec the queue and registry constructed again over a workspace *)
(*   ReachSpec  traversal and query over four nodes read from node files   *)
(* Each leaves the variables of the other components at their initial      *)
(* value.                                                                  *)
(***************************************************************************)
EXTENDS Integers, Sequences, FiniteSets, TLC

\* ------------------------------------------------------------------------
\* Bounds and inputs
\* ------------------------------------------------------------------------
MaxTicks == 1
MaxQueued == 2
MaxClaimed == 2
TimeoutMs == 1000

StaleThresholdMs == 300000
ExpireCheckIntervalMs == 30000

None == "none"
NoTime == -1

MaxSubs == 2
MaxEvents == 2

Agents == {"coder", "helper"}
Tasks == {"t1", "t2"}

\* the order in which the graph query lists task nodes
TaskOrder == <<"t1", "t2">>

\* how far the clock moves between two operations
TickSteps == {StaleThresholdMs + ExpireCheckIntervalMs}

DEFAULT_CAPABILITIES ==
    [nodeTypes |-> {"task"}, tags |-> {}, maxConcurrent |-> 1, priorityBoost |-> 0]

\* the configuration each agent id registers with
AgentConfigs ==
    [coder  |-> [role |-> "code-agent",
                 capabilities |-> [nodeTypes |-> {"task", "code"}, tags |-> {"code"},
                                   maxConcurrent |-> 1, priorityBoost |-> 50]],
     helper |-> [role |-> "custom",
                 capabilities |-> DEFAULT_CAPABILITIES]]

\* the input each task node is created with
TaskInputs ==
    [t1 |-> [priority |-> "high", tags |-> {"code"}],
     t2 |-> [priority |-> "normal", tags |-> {}]]

PRIORITY_VALUES == [critical |-> 1000, high |-> 100, normal |-> 10, low |-> 1]

HourMs == 3600000

\* the tasks of the priority scenario and the nodes they may be: t1 of
\* priority critical with no due date, t2 of priority high, overdue by an hour, due within the hour
\* or without a due date, t3 of priority high with or without an edge of
\* type blocks
PrioTasks == {"t1", "t2", "t3"}
PrioNodeInputs ==
    [t1 : [priority : {"critical"}, dueGiven : {FALSE}, dueAt : {0}, blocks : {0}],
     t2 : [priority : {"high"}, dueGiven : {TRUE}, dueAt : {0 - HourMs, HourMs},
           blocks : {0}]
          \cup [priority : {"high"}, dueGiven : {FALSE}, dueAt : {0}, blocks : {0}],
     t3 : [priority : {"high"}, dueGiven : {FALSE}, dueAt : {0}, blocks : {0, 1}]]

\* the event types that are emitted and those that are subscribed to
EventTypes == {"A", "B"}
SubTypes == {"A", "*"}
\* what a handler does: return, fail, or emit an event of its own
HandlerKinds == {"plain", "throws", "reemit"}
SubIds == 1..MaxSubs
EventIds == 1..MaxEvents

Reasons == {"completed", "error", "blocked", "timeout", "reassign"}
NewStatuses == {None, "pending"}

\* --- graph facade and trigger manager ---
MaxMutations == 4
MaxTriggers == 2
MaxDelivered == 2
TrigMaxDepth == 2
CooldownMs == 1000

\* --- event log ---
MaxAppends == 5
MaxRotateCount == 2
\* options.maxEvents, 0 for no limit, and options.maxSizeBytes, 0 for no limit
MaxEventsOptions == {0, 1, 2}
MaxSizeOptions == {0, 3}
\* the size of a line of the log
LineSizes == {1, 2}

\* the values Date.now() takes
Times == {0} \cup TickSteps

\* the inputs the callers of Cube.create use
\* edges: the edges given inline, each with type and target
CodeInput == [type |-> "code", title |-> "c", tags |-> {"src"}, edges |-> <<>>]
DocInput == [type |-> "doc", title |-> "d", tags |-> {}, edges |-> <<>>]
NodeInputs == {CodeInput, DocInput}

\* the node configuration of the create_node action
SpawnInput == [type |-> "task", title |-> "s", tags |-> {}, edges |-> <<>>]

EdgeTypes == {"documents", "depends-on"}

\* the updates the callers of Cube.update use
UpdateInputs ==
    {[field |-> "content", value |-> "edited"], [field |-> "status", value |-> "active"]}

\* the maxDepth the callers of traverse give
MaxDepths == {0, 1, 2}

\* the options the callers of traverse give; typesGiven is FALSE when
\* edgeTypes is left out
TraverseInputs ==
    [startNode : {[type |-> "code", title |-> "c", ms |-> 0],
                  [type |-> "doc", title |-> "d", ms |-> 0]},
     direction : {"out", "in", "both"}, includeStart : BOOLEAN, maxDepth : MaxDepths,
     typesGiven : BOOLEAN, edgeTypes : {{"documents"}}]

\* the edges a directory of node files written by hand may hold, each as
\* <<owner, type, target>>; the target of the last one has no file
GraphEdges ==
    {<<[type |-> "code", title |-> "c", ms |-> 0], "depends-on",
       [type |-> "doc", title |-> "d", ms |-> 0]>>,
     <<[type |-> "doc", title |-> "d", ms |-> 0], "documents",
       [type |-> "code", title |-> "c", ms |-> 0]>>,
     <<[type |-> "doc", title |-> "d", ms |-> 0], "documents",
       [type |-> "task", title |-> "s", ms |-> 0]>>,
     <<[type |-> "code", title |-> "c", ms |-> 0], "documents",
       [type |-> "code", title |-> "c", ms |-> StaleThresholdMs + ExpireCheckIntervalMs]>>}

NoCubeRet ==
    [op |-> None, id |-> None, ok |-> FALSE, threw |-> FALSE, error |-> None,
     emitted |-> <<>>]

\* the types of the events the trigger manager emits
TriggerEventTypes == {"trigger.fired", "trigger.error"}

CodeChangesTrigger == "code-changes-invalidate-docs"

TriggerIds == {CodeChangesTrigger, "spawn", "faulty", "relay", "echo"}

\* the triggers the callers switch off and on with setEnabled
Switchable == {"echo"}

\* the triggers the callers register: the one createCodeChangesTrigger
\* builds, one that creates a node within a cooldown, one whose second
\* action throws, one without a priority that invalidates on every creation
\* and update, and one of priority 0 whose first action has no executor
TriggerConfigs ==
    (CodeChangesTrigger :>
        [event |-> {"node.updated"}, nodeType |-> "code",
         actions |-> <<"invalidate", "log">>, priority |-> 10, cooldownMs |-> 0])
    @@ ("spawn" :>
        [event |-> {"node.created", "trigger.fired"}, nodeType |-> None,
         actions |-> <<"create_node">>, priority |-> 5, cooldownMs |-> CooldownMs])
    @@ ("faulty" :>
        [event |-> {"node.created", "node.updated", "trigger.error"}, nodeType |-> None,
         actions |-> <<"log", "fail">>, priority |-> 7, cooldownMs |-> 0])
    @@ ("relay" :>
        [event |-> {"node.created", "node.updated"}, nodeType |-> None,
         actions |-> <<"invalidate">>, cooldownMs |-> 0])
    @@ ("echo" :>
        [event |-> {"node.created"}, nodeType |-> None,
         actions |-> <<"webhook", "log">>, priority |-> 0, cooldownMs |-> 0])

\* ------------------------------------------------------------------------
\* State
\* ------------------------------------------------------------------------
VARIABLES
    now,          \* Date.now(), in ms
    ticks,        \* how many times the clock has moved
    registered,   \* AgentRegistry.agents: ids in Map insertion order
    agentState,   \* agent id -> AgentState (also the persisted state file)
    items,        \* WorkQueue.items: work items in Map insertion order
    retired,      \* id and final status of the work items removed from the live table
    stats,        \* WorkQueue.stats
    nodes,        \* the task nodes of the graph
    expiresAt,    \* task id -> ClaimResult.expiresAt of its present claim
    ret           \* the last operation and, for claim, release and transfer, its result

qvars == <<now, ticks, registered, agentState, items, retired, stats, nodes, expiresAt, ret>>

VARIABLES
    subscriptions,   \* EventBus.subscriptions: id -> subscription
    eventTypeIndex,  \* EventBus.eventTypeIndex: event type -> ids in Set insertion order
    paused,          \* EventBus.paused
    eventQueue,      \* EventBus.eventQueue: the events queued while paused
    events,          \* the type of each event, in the order of the emit calls
    calls,           \* event -> the emit call on it that awaits a handler
    resuming,        \* the resume call that awaits an emit
    delivered,       \* <<subscription id, event>> for each call of a handler, in order
    done             \* the emit or resume call that resolved in the last step

busvars == <<subscriptions, eventTypeIndex, paused, eventQueue, events, calls, resuming,
             delivered, done>>

VARIABLES
    files,       \* FileStorage: node id -> the markdown file of the node
    idxNodes,    \* SqliteIndex: node id -> its row of the table nodes
    idxEdges,    \* SqliteIndex: the rows of the table edges
    idxTags,     \* SqliteIndex: the rows of the table tags
    mutations,   \* how many facade calls of the callers have succeeded
    cret         \* the last facade call of a caller and its result

cubevars == <<files, idxNodes, idxEdges, idxTags, mutations, cret>>

VARIABLES
    triggers,    \* TriggerManager.triggers: triggers in Map insertion order
    pcalls,      \* event number -> the processEvent call on it
    tevents,     \* the events handed to the handler of the manager, in order
    tlog         \* EventLog: the entries appendEvent has written, in order

trigvars == <<triggers, pcalls, tevents, tlog>>

VARIABLES
    emitted      \* the events the last operation of the orchestrator gave to emitSync

orchvars == <<emitted>>

VARIABLES
    logFiles,    \* events.log and events.log.i: the lines of each file that exists
    eventCount,  \* EventLog.eventCount
    logOptions,  \* EventLog.options, and whether require is defined in the build
    appended     \* the entries handed to append, in order

logvars == <<logFiles, eventCount, logOptions, appended>>

vars == <<qvars, busvars, cubevars, trigvars, orchvars, logvars>>

\* what the actions of each component leave alone
notq == <<busvars, cubevars, trigvars, orchvars, logvars>>
notbus == <<qvars, cubevars, trigvars, orchvars, logvars>>
notcube == <<qvars, busvars, trigvars, orchvars, logvars>>

\* ------------------------------------------------------------------------
\* Sequence helpers
\* ------------------------------------------------------------------------
Range(s) == {s[i] : i \in 1..Len(s)}

Contains(s, x) == \E i \in 1..Len(s) : s[i] = x

\* Array.prototype.indexOf, 1-based; 0 when absent
IndexOf(s, x) ==
    IF Contains(s, x) THEN CHOOSE i \in 1..Len(s) : s[i] = x /\ \A j \in 1..(i-1) : s[j] # x
    ELSE 0

\* Array.prototype.splice(index, 1)
RemoveAt(s, i) == SubSeq(s, 1, i-1) \o SubSeq(s, i+1, Len(s))

RECURSIVE FilterSeq(_, _)
\* Array.prototype.filter with the predicate given as the set of kept values
FilterSeq(s, keep) ==
    IF s = <<>> THEN <<>>
    ELSE (IF Head(s) \in keep THEN <<Head(s)>> ELSE <<>>) \o FilterSeq(Tail(s), keep)

\* ------------------------------------------------------------------------
\* Agent registry
\* ------------------------------------------------------------------------
\* AgentRegistry.loadState: the state of an agent without a state file
DefaultState ==
    [status |-> "idle", claimedTasks |-> <<>>, tasksCompleted |-> 0, tasksFailed |-> 0,
     lastHeartbeat |-> NoTime]

Capabilities(a) == AgentConfigs[a].capabilities

\* a limit check that lets an agent go one task over its limit
AtMaxConcurrentOffByOne(ast, a) ==
    Len(ast[a].claimedTasks) > Capabilities(a).maxConcurrent

\* agent.state.claimedTasks.length >= agent.capabilities.maxConcurrent
AtMaxConcurrent(ast, a) ==
    Len(ast[a].claimedTasks) >= Capabilities(a).maxConcurrent

IsRegistered(reg, a) == Contains(reg, a)

\* the task recorded without the status of the agent being touched
AddClaimedTaskOnly(reg, ast, a, t) ==
    IF ~IsRegistered(reg, a) THEN ast
    ELSE IF Contains(ast[a].claimedTasks, t) THEN ast
    ELSE [ast EXCEPT ![a].claimedTasks = Append(@, t)]

\* AgentRegistry.addClaimedTask
AddClaimedTask(reg, ast, a, t) ==
    IF ~IsRegistered(reg, a) THEN ast
    ELSE IF Contains(ast[a].claimedTasks, t) THEN ast
    ELSE [ast EXCEPT ![a].claimedTasks = Append(@, t), ![a].status = "working"]

\* AgentRegistry.removeClaimedTask
RemoveClaimedTask(reg, ast, a, t, completed) ==
    IF ~IsRegistered(reg, a) THEN ast
    ELSE IF IndexOf(ast[a].claimedTasks, t) = 0 THEN ast
    ELSE LET rest == RemoveAt(ast[a].claimedTasks, IndexOf(ast[a].claimedTasks, t))
         IN [ast EXCEPT ![a].claimedTasks = rest,
                        ![a].tasksCompleted = IF completed THEN @ + 1 ELSE @,
                        ![a].tasksFailed = IF completed THEN @ ELSE @ + 1,
                        ![a].status = IF rest = <<>> THEN "idle" ELSE @]

RECURSIVE InsertCapable(_, _, _)
\* place x in the sorted list s, behind every entry it does not sort before;
\* the comparator of findCapable: priorityBoost descending, then the number
\* of claimed tasks ascending
InsertCapable(ast, s, x) ==
    IF s = <<>> THEN <<x>>
    ELSE LET y == Head(s)
             xFirst ==
                 IF Capabilities(y).priorityBoost # Capabilities(x).priorityBoost
                 THEN Capabilities(y).priorityBoost - Capabilities(x).priorityBoost < 0
                 ELSE Len(ast[x].claimedTasks) - Len(ast[y].claimedTasks) < 0
         IN IF xFirst THEN <<x>> \o s ELSE <<y>> \o InsertCapable(ast, Tail(s), x)

RECURSIVE SortCapable(_, _)
\* Array.prototype.sort (stable) with the comparator of findCapable
SortCapable(ast, s) ==
    IF s = <<>> THEN <<>>
    ELSE InsertCapable(ast, SortCapable(ast, SubSeq(s, 1, Len(s) - 1)), s[Len(s)])

\* the filter of AgentRegistry.findCapable; role = None when not required
IsCapable(ast, a, nodeType, tags, role) ==
    /\ ast[a].status # "offline"
    /\ ~AtMaxConcurrent(ast, a)
    /\ ~(role # None /\ AgentConfigs[a].role # role)
    /\ ~(nodeType # None /\ nodeType \notin Capabilities(a).nodeTypes)
    /\ ~(tags # {} /\ tags \cap Capabilities(a).tags = {})

\* AgentRegistry.findCapable
FindCapable(reg, ast, nodeType, tags, role) ==
    SortCapable(ast, FilterSeq(reg, {a \in Agents : IsCapable(ast, a, nodeType, tags, role)}))

\* AgentRegistry.checkStale: the agents it moves to offline, in Map order
StaleAgents(reg, ast, thresholdMs) ==
    FilterSeq(reg, {a \in Agents : /\ ast[a].lastHeartbeat # NoTime
                                   /\ now - ast[a].lastHeartbeat > thresholdMs
                                   /\ ast[a].status # "offline"})

\* AgentRegistry.checkStale: the agent states afterwards
CheckStale(reg, ast, thresholdMs) ==
    [a \in Agents |-> IF a \in Range(StaleAgents(reg, ast, thresholdMs))
                      THEN [ast[a] EXCEPT !.status = "offline"]
                      ELSE ast[a]]

\* ------------------------------------------------------------------------
\* Task nodes of the graph, as far as the queue and the dispatcher use them
\* ------------------------------------------------------------------------
\* dueGiven: the node has a due date; blocks: how many of its edges are of
\* type blocks
NoNode == [exists |-> FALSE, type |-> None, status |-> None, priority |-> None,
           tags |-> {}, assignedTo |-> None, lockedBy |-> None,
           dueGiven |-> FALSE, dueAt |-> 0, blocks |-> 0]

\* Cube.update: a node that does not exist is left alone (failure result)
CubeUpdateClaimed(nds, t, a) ==
    IF nds[t].exists
    THEN [nds EXCEPT ![t].status = "claimed", ![t].assignedTo = a, ![t].lockedBy = a]
    ELSE nds

CubeUpdateReleased(nds, t, newStatus) ==
    IF nds[t].exists
    THEN [nds EXCEPT ![t].status = newStatus, ![t].lockedBy = None]
    ELSE nds

\* Cube.query({filter: {type: 'task', status: 'pending'}})
PendingTasks(nds) ==
    FilterSeq(TaskOrder, {t \in Tasks : nds[t].exists /\ nds[t].type = "task"
                                                     /\ nds[t].status = "pending"})

\* ------------------------------------------------------------------------
\* Work queue.  w is the state the queue works on:
\*   [reg, ast, items, retired, stats, nodes]
\* ------------------------------------------------------------------------
World == [reg |-> registered, ast |-> agentState, items |-> items,
          retired |-> retired, stats |-> stats, nodes |-> nodes]

\* position of the work item of task t in the live table, 0 when absent
ItemIndex(its, t) ==
    IF \E i \in 1..Len(its) : its[i].taskId = t
    THEN CHOOSE i \in 1..Len(its) : its[i].taskId = t
    ELSE 0

\* calculatePriority without the boost for the due date
CalculatePriorityNoDue(node) == PRIORITY_VALUES[node.priority] + node.blocks * 20

\* WorkQueue.calculatePriority: the value of the priority, a boost by the
\* time left until the due date, and 20 for each edge of type blocks
CalculatePriority(node) ==
    LET untilDue == node.dueAt - now
        dueBoost == IF ~node.dueGiven THEN 0
                    ELSE IF untilDue < 0 THEN 500
                    ELSE IF untilDue < 24 * HourMs THEN 200
                    ELSE IF untilDue < 72 * HourMs THEN 50
                    ELSE 0
    IN PRIORITY_VALUES[node.priority] + dueBoost + node.blocks * 20

\* a test that finds no task in the live table
ItemsHasNever(its, t) == FALSE

\* this.items.has(taskId)
ItemsHas(its, t) == ItemIndex(its, t) # 0

\* WorkQueue.enqueue; timeout = 0 when the option is not given
EnqueueOp(w, t, timeout) ==
    IF ItemsHas(w.items, t) THEN w
    ELSE LET item == [id |-> w.stats.totalQueued + 1,
                      taskId |-> t,
                      priority |-> IF w.nodes[t].exists
                                   THEN CalculatePriority(w.nodes[t])
                                   ELSE PRIORITY_VALUES.normal,
                      timeout |-> timeout,
                      status |-> "queued",
                      claimedBy |-> None,
                      claimedAt |-> NoTime]
         IN [w EXCEPT !.items = Append(@, item), !.stats.totalQueued = @ + 1]

\* a status check that lets every work item be claimed
IsQueuedItemAlways(item) == TRUE

\* item.status === 'queued', the test of WorkQueue.claim
IsQueuedItem(item) == item.status = "queued"

\* an ownership check that lets every agent release
OwnsClaimAlways(item, a) == TRUE

\* an ownership check that lets every agent release a claimed item
OwnsClaimOfAnyone(item, a) == item.claimedBy # None

\* item.claimedBy === agentId, the test of WorkQueue.release
OwnsClaim(item, a) == item.claimedBy = a

NoResult == [success |-> FALSE, taskId |-> None, error |-> None, claimedBy |-> None,
             claimedAt |-> NoTime, expiresAt |-> NoTime]

\* WorkQueue.getNextFor: the first of the queued items sorted (stably) by
\* descending priority, None when the agent is unknown or at its limit or
\* nothing is queued; the items carry no preferred agent, role or tags
GetNextFor(w, a) ==
    LET queued == SelectSeq(w.items, LAMBDA it : it.status = "queued")
    IN IF ~IsRegistered(w.reg, a) \/ AtMaxConcurrent(w.ast, a) \/ queued = <<>> THEN None
       ELSE LET best == CHOOSE i \in 1..Len(queued) :
                           \A j \in 1..Len(queued) :
                               /\ queued[j].priority <= queued[i].priority
                               /\ j < i => queued[j].priority < queued[i].priority
            IN queued[best].taskId

\* WorkQueue.claim; timeoutMs = 0 when not given.  Returns [w, res].
ClaimOp(w, a, t, timeoutMs) ==
    LET i == ItemIndex(w.items, t) IN
    IF ~IsRegistered(w.reg, a)
    THEN [w |-> w, res |-> [NoResult EXCEPT !.taskId = t, !.error = "Agent not found"]]
    ELSE IF AtMaxConcurrent(w.ast, a)
    THEN [w |-> w, res |-> [NoResult EXCEPT !.taskId = t,
                                            !.error = "Agent at max concurrent tasks"]]
    ELSE IF i = 0
    THEN [w |-> w, res |-> [NoResult EXCEPT !.taskId = t, !.error = "Task not in queue"]]
    ELSE IF ~IsQueuedItem(w.items[i])
    THEN [w |-> w, res |-> [NoResult EXCEPT !.taskId = t,
                                            !.error = "Task already " \o w.items[i].status,
                                            !.claimedBy = w.items[i].claimedBy]]
    ELSE [w |-> [w EXCEPT !.items[i].status = "claimed",
                          !.items[i].claimedBy = a,
                          !.items[i].claimedAt = now,
                          !.ast = AddClaimedTask(w.reg, w.ast, a, t),
                          !.nodes = CubeUpdateClaimed(w.nodes, t, a),
                          !.stats.totalClaimed = @ + 1],
          res |-> [success |-> TRUE, taskId |-> t, error |-> None, claimedBy |-> a,
                   claimedAt |-> now,
                   expiresAt |-> IF timeoutMs # 0 THEN now + timeoutMs ELSE NoTime]]

\* WorkQueue.release.  Returns [w, ok].
ReleaseOp(w, a, t, reason, newStatus) ==
    LET i == ItemIndex(w.items, t) IN
    IF i = 0 \/ ~OwnsClaim(w.items[i], a)
    THEN [w |-> w, ok |-> FALSE]
    ELSE LET completed == reason = "completed"
             item == IF completed
                     THEN [w.items[i] EXCEPT !.status = "completed"]
                     ELSE IF reason = "error"
                     THEN [w.items[i] EXCEPT !.status = "failed"]
                     ELSE [w.items[i] EXCEPT !.status = "queued", !.claimedBy = None,
                                             !.claimedAt = NoTime]
             terminal == item.status = "completed" \/ item.status = "failed"
         IN [w |-> [w EXCEPT
                      !.stats.totalCompleted = IF completed THEN @ + 1 ELSE @,
                      !.stats.totalFailed = IF ~completed /\ reason = "error" THEN @ + 1 ELSE @,
                      !.ast = RemoveClaimedTask(w.reg, w.ast, a, t, completed),
                      !.nodes = IF newStatus # None
                                THEN CubeUpdateReleased(w.nodes, t, newStatus)
                                ELSE @,
                      !.items = IF terminal THEN RemoveAt(@, i) ELSE [@ EXCEPT ![i] = item],
                      !.retired = IF terminal
                                  THEN @ \cup {[id |-> item.id, status |-> item.status]}
                                  ELSE @],
             ok |-> TRUE]

\* WorkQueue.transfer.  Returns [w, res].
TransferOp(w, from, to, t) ==
    LET rel == ReleaseOp(w, from, t, "reassign", None) IN
    IF ~rel.ok
    THEN [w |-> w, res |-> [NoResult EXCEPT !.taskId = t,
                                            !.error = "Failed to release from current agent"]]
    ELSE ClaimOp(rel.w, to, t, 0)

RECURSIVE CheckExpiredFrom(_, _, _)
\* the loop of WorkQueue.checkExpired from the i-th work item on;
\* expired collects the items as they are after their release
CheckExpiredFrom(w, i, expired) ==
    IF i > Len(w.items) THEN [w |-> w, expired |-> expired]
    ELSE LET item == w.items[i] IN
         IF /\ item.status = "claimed" /\ item.timeout # 0 /\ item.claimedAt # NoTime
            /\ now - item.claimedAt > item.timeout
         THEN LET w2 == IF item.claimedBy # None
                        THEN ReleaseOp(w, item.claimedBy, item.taskId, "timeout", None).w
                        ELSE w
              IN CheckExpiredFrom(w2, i + 1, Append(expired, w2.items[i]))
         ELSE CheckExpiredFrom(w, i + 1, expired)

\* WorkQueue.checkExpired.  Returns [w, expired].
CheckExpiredOp(w) == CheckExpiredFrom(w, 1, <<>>)

\* WorkQueue.getClaimed(agentId): task ids in Map order
GetClaimed(its, a) ==
    LET idx == {i \in 1..Len(its) : its[i].status = "claimed" /\ its[i].claimedBy = a}
        RECURSIVE Pick(_)
        Pick(i) == IF i > Len(its) THEN <<>>
                   ELSE (IF i \in idx THEN <<its[i].taskId>> ELSE <<>>) \o Pick(i + 1)
    IN Pick(1)

\* ------------------------------------------------------------------------
\* Orchestrator
\* ------------------------------------------------------------------------
NoDispatch == [dispatched |-> <<>>, skipped |-> <<>>, errors |-> <<>>]

RECURSIVE DispatchLoop(_, _, _, _)
\* the loop of Orchestrator.dispatch over the remaining tasks.
\* opts = [dryRun, maxTasks (0: not given), agentIds ({}: not given)]
DispatchLoop(w, tasks, opts, result) ==
    IF tasks = <<>> THEN [w |-> w, result |-> result]
    ELSE
      LET t == Head(tasks)
          i == ItemIndex(w.items, t)
          found == FindCapable(w.reg, w.ast, w.nodes[t].type, w.nodes[t].tags, None)
          agents == IF opts.agentIds # {} THEN FilterSeq(found, opts.agentIds) ELSE found
      IN
      IF i # 0 /\ w.items[i].status = "claimed"
      THEN DispatchLoop(w, Tail(tasks), opts,
             [result EXCEPT !.skipped = Append(@, [taskId |-> t, reason |-> "Already claimed"])])
      ELSE IF agents = <<>>
      THEN DispatchLoop(w, Tail(tasks), opts,
             [result EXCEPT !.skipped = Append(@, [taskId |-> t, reason |-> "No capable agents"])])
      ELSE IF opts.dryRun
      THEN DispatchLoop(w, Tail(tasks), opts,
             [result EXCEPT !.dispatched = Append(@, [taskId |-> t, agentId |-> agents[1]])])
      ELSE
        LET w1 == IF i = 0 THEN EnqueueOp(w, t, 0) ELSE w
            c == ClaimOp(w1, agents[1], t, 0)
        IN IF c.res.success
           THEN DispatchLoop(c.w, Tail(tasks), opts,
                  [result EXCEPT !.dispatched = Append(@, [taskId |-> t, agentId |-> agents[1]])])
           ELSE DispatchLoop(c.w, Tail(tasks), opts,
                  [result EXCEPT !.errors = Append(@, <<t, c.res.error>>)])

\* Orchestrator.dispatch (the graph is connected).  Returns [w, result].
DispatchOp(w, opts) ==
    LET pending == PendingTasks(w.nodes)
        tasks == IF opts.maxTasks # 0
                 THEN SubSeq(pending, 1, IF opts.maxTasks < Len(pending)
                                         THEN opts.maxTasks ELSE Len(pending))
                 ELSE pending
    IN DispatchLoop(w, tasks, opts, NoDispatch)

RECURSIVE ReleaseAll(_, _, _)
\* the inner loop of Orchestrator.checkStaleAgents: release every listed task
ReleaseAll(w, a, claimed) ==
    IF claimed = <<>> THEN w
    ELSE ReleaseAll(ReleaseOp(w, a, Head(claimed), "timeout", None).w, a, Tail(claimed))

RECURSIVE ReleaseStale(_, _)
\* the outer loop of Orchestrator.checkStaleAgents over the stale agents
ReleaseStale(w, stale) ==
    IF stale = <<>> THEN w
    ELSE ReleaseStale(ReleaseAll(w, Head(stale), GetClaimed(w.items, Head(stale))), Tail(stale))

\* Orchestrator.checkStaleAgents.  Returns the state afterwards.
CheckStaleAgentsOp(w) ==
    LET stale == StaleAgents(w.reg, w.ast, StaleThresholdMs)
        w1 == [w EXCEPT !.ast = CheckStale(w.reg, w.ast, StaleThresholdMs)]
    IN ReleaseStale(w1, stale)

DispatchOptions ==
    [dryRun : BOOLEAN, maxTasks : {0, 1}, agentIds : {{}, {"helper"}}]

\* ------------------------------------------------------------------------
\* Event bus
\* ------------------------------------------------------------------------
\* a subscription id that on() has not handed out yet
NoSub == [eventType |-> None, once |-> FALSE, kind |-> None, subscribed |-> FALSE]

NoCall == [active |-> FALSE, handlers |-> <<>>, i |-> 0, errors |-> 0, byResume |-> FALSE]

NoResume == [active |-> FALSE, queue |-> <<>>, idx |-> 0, waiting |-> FALSE]

NoDone == [op |-> None, ev |-> 0, handlers |-> <<>>, invoked |-> 0, errors |-> 0,
           queue |-> <<>>]

\* the fields of the bus that its synchronous code reads and writes
Bus ==
    [subscriptions |-> subscriptions, eventTypeIndex |-> eventTypeIndex,
     paused |-> paused, eventQueue |-> eventQueue, events |-> events,
     delivered |-> delivered]

\* EventBus.on: the subscription is stored and its id added to the index
\* of its event type
OnOp(b, id, eventType, kind, once) ==
    [b EXCEPT !.subscriptions[id] = [eventType |-> eventType, once |-> once,
                                     kind |-> kind, subscribed |-> TRUE],
              !.eventTypeIndex[eventType] = Append(@, id)]

\* EventBus.off; a snapshot taken earlier keeps the subscription object
OffOp(b, id) ==
    IF ~b.subscriptions[id].subscribed THEN b
    ELSE [b EXCEPT !.subscriptions[id].subscribed = FALSE,
                   !.eventTypeIndex[b.subscriptions[id].eventType] =
                       FilterSeq(@, Range(@) \ {id})]

\* the ids of an index entry whose subscription is still in the map
Subscribed(b, eventType) ==
    FilterSeq(b.eventTypeIndex[eventType],
              {id \in SubIds : b.subscriptions[id].subscribed})

GetHandlersWildcardFirst(b, eventType) ==
    Subscribed(b, "*") \o Subscribed(b, eventType)

\* EventBus.getHandlers: the handlers of the exact type, then the wildcard ones
GetHandlers(b, eventType) ==
    Subscribed(b, eventType) \o Subscribed(b, "*")

RECURSIVE EmitSyncOp(_, _)
\* a handler is called with event ev; a handler of kind "reemit" calls
\* emitSync with a new event of type B when it is given an event of type A
Handle(b, id, ev) ==
    LET b1 == [b EXCEPT !.delivered = Append(@, <<id, ev>>)]
    IN IF /\ b.subscriptions[id].kind = "reemit"
          /\ b.events[ev] = "A"
          /\ Len(b.events) < MaxEvents
       THEN EmitSyncOp([b1 EXCEPT !.events = Append(@, "B")], Len(b.events) + 1)
       ELSE b1

RECURSIVE EmitSyncLoop(_, _, _, _)
\* the loop of emitSync over its snapshot of handlers
EmitSyncLoop(b, handlers, i, ev) ==
    IF i > Len(handlers) THEN b
    ELSE LET id == handlers[i]
             b1 == Handle(b, id, ev)
             b2 == IF b.subscriptions[id].once THEN OffOp(b1, id) ELSE b1
         IN EmitSyncLoop(b2, handlers, i + 1, ev)

\* EventBus.emitSync
EmitSyncOp(b, ev) ==
    IF b.paused THEN [b EXCEPT !.eventQueue = Append(@, ev)]
    ELSE EmitSyncLoop(b, GetHandlers(b, b.events[ev]), 1, ev)

\* EventBus.emit up to its first await: a paused bus queues the event, an
\* unpaused bus takes the snapshot and calls the first handler
EmitBegin(b, ev, byResume) ==
    IF b.paused
    THEN [b |-> [b EXCEPT !.eventQueue = Append(@, ev)], call |-> NoCall,
          done |-> [NoDone EXCEPT !.op = "queued", !.ev = ev]]
    ELSE LET handlers == GetHandlers(b, b.events[ev])
         IN IF handlers = <<>>
            THEN [b |-> b, call |-> NoCall,
                  done |-> [NoDone EXCEPT !.op = "emit", !.ev = ev]]
            ELSE [b |-> Handle(b, handlers[1], ev),
                  call |-> [active |-> TRUE, handlers |-> handlers, i |-> 1,
                            errors |-> 0, byResume |-> byResume],
                  done |-> NoDone]

\* EventBus.emit after the handler it awaited has settled: the error is kept,
\* a one-time handler removed, and the next handler called
EmitContinue(b, call, ev) ==
    LET id == call.handlers[call.i]
        errors == call.errors + (IF b.subscriptions[id].kind = "throws" THEN 1 ELSE 0)
        b1 == IF b.subscriptions[id].once THEN OffOp(b, id) ELSE b
    IN IF call.i < Len(call.handlers)
       THEN [b |-> Handle(b1, call.handlers[call.i + 1], ev),
             call |-> [call EXCEPT !.i = call.i + 1, !.errors = errors],
             done |-> NoDone]
       ELSE [b |-> b1, call |-> NoCall,
             done |-> [NoDone EXCEPT !.op = "emit", !.ev = ev,
                                     !.handlers = call.handlers,
                                     !.invoked = call.i, !.errors = errors]]

\* a bus after construction
BusFresh ==
    /\ subscriptions = [id \in SubIds |-> NoSub]
    /\ eventTypeIndex = [ty \in EventTypes \cup {"*"} |-> <<>>]
    /\ paused = FALSE
    /\ eventQueue = <<>>
    /\ events = <<>>
    /\ calls = [ev \in EventIds |-> NoCall]
    /\ resuming = NoResume
    /\ delivered = <<>>
    /\ done = NoDone

\* ------------------------------------------------------------------------
\* Graph facade: node files and the index
\* ------------------------------------------------------------------------
\* generateId: the slug of the title and a hash of type, title and Date.now()
GenerateId(type, title, ms) == [type |-> type, title |-> title, ms |-> ms]

NodeIds ==
    {GenerateId(in.type, in.title, ms) : in \in NodeInputs \cup {SpawnInput}, ms \in Times}

\* flow: the edges list is written on the line of its key, as [...]
NoFile ==
    [exists |-> FALSE, version |-> 0, status |-> None, validity |-> None,
     tags |-> {}, edges |-> <<>>, flow |-> TRUE, content |-> None]

NoRow == [indexed |-> FALSE, version |-> 0, status |-> None, validity |-> None]

\* the storage and the index that the facade works on
Cube ==
    [files |-> files, idxNodes |-> idxNodes, idxEdges |-> idxEdges, idxTags |-> idxTags]

\* createNode: a new node with its defaults
CreateNode(input, ms) ==
    [id |-> GenerateId(input.type, input.title, ms), version |-> 1,
     status |-> "pending", validity |-> "current", tags |-> input.tags,
     edges |-> <<>>, content |-> ""]

\* updateNode: the updates spread over the node, the version incremented
UpdateNode(node, updates) ==
    [node EXCEPT !.version = @ + 1,
                 !.status = IF updates.field = "status" THEN updates.value ELSE @,
                 !.validity = IF updates.field = "validity" THEN updates.value ELSE @,
                 !.content = IF updates.field = "content" THEN updates.value ELSE @]

\* the id addEdge and markdownToNode give an edge
EdgeId(from, type, to) == [from |-> from, type |-> type, to |-> to]

\* addEdge
AddEdge(node, type, to) ==
    [node EXCEPT !.version = @ + 1,
                 !.edges = Append(@, [id |-> EdgeId(node.id, type, to), from |-> node.id,
                                      to |-> to, type |-> type])]

\* removeEdge
RemoveEdge(node, edgeId) ==
    [node EXCEPT !.version = @ + 1,
                 !.edges = SelectSeq(@, LAMBDA e : e.id # edgeId)]

\* nodeToMarkdown: the front matter keeps type and target of each edge;
\* buildYaml writes an empty list as [] and the items of any other list on
\* indented lines of their own
NodeToMarkdown(node) ==
    [exists |-> TRUE, version |-> node.version, status |-> node.status,
     validity |-> node.validity, tags |-> node.tags,
     edges |-> [k \in 1..Len(node.edges) |->
                   [type |-> node.edges[k].type, target |-> node.edges[k].to]],
     flow |-> node.edges = <<>>,
     content |-> node.content]

\* parseYaml on the edges key of the front matter: a list in flow style is
\* read with JSON.parse and gives its items; the items buildYaml writes on
\* indented lines are read as the keys of one nested object
ParseYamlEdges(file) ==
    IF file.flow THEN [isArray |-> TRUE, items |-> file.edges]
    ELSE [isArray |-> FALSE, items |-> <<>>]

\* markdownToNode: throws when meta.edges has no map method
MarkdownToNode(id, file) ==
    LET meta == ParseYamlEdges(file)
    IN IF ~meta.isArray THEN [outcome |-> "throws", node |-> NoFile]
       ELSE [outcome |-> "ok",
             node |-> [id |-> id, version |-> file.version, status |-> file.status,
                       validity |-> file.validity, tags |-> file.tags,
                       edges |-> [k \in 1..Len(meta.items) |->
                                    [id |-> EdgeId(id, meta.items[k].type, meta.items[k].target),
                                     from |-> id, to |-> meta.items[k].target,
                                     type |-> meta.items[k].type]],
                       content |-> file.content]]

\* FileStorage.loadNode
LoadNode(c, id) ==
    IF ~c.files[id].exists THEN [outcome |-> "missing", node |-> NoFile]
    ELSE MarkdownToNode(id, c.files[id])

\* FileStorage.saveNode: the file of that id is written, whatever it held
SaveNode(c, node) == [c EXCEPT !.files[node.id] = NodeToMarkdown(node)]

\* SqliteIndex.indexNode: the node row replaced, its edge and tag rows
\* deleted and inserted again
IndexNode(c, node) ==
    [c EXCEPT !.idxNodes[node.id] = [indexed |-> TRUE, version |-> node.version,
                                     status |-> node.status, validity |-> node.validity],
              !.idxEdges = {r \in @ : r.from # node.id} \cup Range(node.edges),
              !.idxTags = {r \in @ : r.node # node.id}
                              \cup {[node |-> node.id, tag |-> tag] : tag \in node.tags}]

\* SqliteIndex.removeNode
RemoveNode(c, id) ==
    [c EXCEPT !.idxNodes[id] = NoRow,
              !.idxEdges = {r \in @ : r.from # id},
              !.idxTags = {r \in @ : r.node # id}]

EmittedByCreate(op) == IF op = "create" THEN <<"node.created">> ELSE <<>>

\* the events a successful facade operation emits: the facade holds no
\* event bus and none of its methods emits
EmittedBy(op) == <<>>

\* what a facade operation returns, and the events it has emitted
Result(c, op, id, ok, threw, error) ==
    [c |-> c,
     ret |-> [op |-> op, id |-> id, ok |-> ok, threw |-> threw, error |-> error,
              emitted |-> IF ok THEN EmittedBy(op) ELSE <<>>]]

RECURSIVE AddEdges(_, _)
\* the loop of Cube.create over the edges given inline
AddEdges(node, edges) ==
    IF edges = <<>> THEN node
    ELSE AddEdges(AddEdge(node, Head(edges).type, Head(edges).to), Tail(edges))

\* Cube.create
CreateOp(c, input, ms) ==
    LET node == AddEdges(CreateNode(input, ms), input.edges)
    IN Result(IndexNode(SaveNode(c, node), node), "create", node.id, TRUE, FALSE, None)

\* Cube.update
UpdateOp(c, id, updates) ==
    LET existing == LoadNode(c, id)
    IN IF existing.outcome = "missing"
       THEN Result(c, "update", id, FALSE, FALSE, "Node not found")
       ELSE IF existing.outcome = "throws"
       THEN Result(c, "update", id, FALSE, TRUE, "TypeError")
       ELSE LET updated == UpdateNode(existing.node, updates)
            IN Result(IndexNode(SaveNode(c, updated), updated), "update", id, TRUE, FALSE, None)

\* Cube.delete
DeleteOp(c, id) ==
    IF ~c.files[id].exists
    THEN Result(c, "delete", id, FALSE, FALSE, "Node not found")
    ELSE Result(RemoveNode([c EXCEPT !.files[id] = NoFile], id), "delete", id,
                TRUE, FALSE, None)

\* Cube.link
LinkOp(c, fromId, type, toId) ==
    LET fromNode == LoadNode(c, fromId)
    IN IF fromNode.outcome = "missing"
       THEN Result(c, "link", fromId, FALSE, FALSE, "Source node not found")
       ELSE IF fromNode.outcome = "throws"
       THEN Result(c, "link", fromId, FALSE, TRUE, "TypeError")
       ELSE IF ~c.files[toId].exists
       THEN Result(c, "link", fromId, FALSE, FALSE, "Target node not found")
       ELSE IF \E k \in 1..Len(fromNode.node.edges) :
                  /\ fromNode.node.edges[k].type = type
                  /\ fromNode.node.edges[k].to = toId
       THEN Result(c, "link", fromId, FALSE, FALSE, "Edge already exists")
       ELSE LET updated == AddEdge(fromNode.node, type, toId)
            IN Result(IndexNode(SaveNode(c, updated), updated), "link", fromId,
                      TRUE, FALSE, None)

\* Cube.unlink
UnlinkOp(c, fromId, type, toId) ==
    LET fromNode == LoadNode(c, fromId)
        edgeId == EdgeId(fromId, type, toId)
    IN IF fromNode.outcome = "missing"
       THEN Result(c, "unlink", fromId, FALSE, FALSE, "Source node not found")
       ELSE IF fromNode.outcome = "throws"
       THEN Result(c, "unlink", fromId, FALSE, TRUE, "TypeError")
       ELSE IF ~\E k \in 1..Len(fromNode.node.edges) : fromNode.node.edges[k].id = edgeId
       THEN Result(c, "unlink", fromId, FALSE, FALSE, "Edge not found")
       ELSE LET updated == RemoveEdge(fromNode.node, edgeId)
            IN Result(IndexNode(SaveNode(c, updated), updated), "unlink", fromId,
                      TRUE, FALSE, None)

\* FileStorage.listAllNodes: the files that markdownToNode accepts; the
\* others are logged and left out
ListAllNodes(c) ==
    {LoadNode(c, id).node : id \in {i \in NodeIds : LoadNode(c, i).outcome = "ok"}}

RECURSIVE IndexAll(_, _)
IndexAll(c, todo) ==
    IF todo = {} THEN c
    ELSE LET node == CHOOSE n \in todo : TRUE
         IN IndexAll(IndexNode(c, node), todo \ {node})

\* Cube.rebuildIndex: the index cleared, then every listed node indexed
RebuildIndexOp(c) ==
    IndexAll([c EXCEPT !.idxNodes = [id \in NodeIds |-> NoRow],
                       !.idxEdges = {}, !.idxTags = {}],
             ListAllNodes(c))

\* storage and index after Cube.init on an empty directory
EmptyCube ==
    [files |-> [id \in NodeIds |-> NoFile], idxNodes |-> [id \in NodeIds |-> NoRow],
     idxEdges |-> {}, idxTags |-> {}]

\* a graph after Cube.init on an empty directory
CubeFresh ==
    /\ files = EmptyCube.files
    /\ idxNodes = EmptyCube.idxNodes
    /\ idxEdges = EmptyCube.idxEdges
    /\ idxTags = EmptyCube.idxTags
    /\ mutations = 0
    /\ cret = NoCubeRet


\* the order of FileStorage.listAllNodes: the node types in the order of its
\* list, the files of a type in the order of their names
ListingOrder ==
    <<GenerateId("task", "s", 0), GenerateId("task", "s", StaleThresholdMs + ExpireCheckIntervalMs),
      GenerateId("doc", "d", 0), GenerateId("doc", "d", StaleThresholdMs + ExpireCheckIntervalMs),
      GenerateId("code", "c", 0), GenerateId("code", "c", StaleThresholdMs + ExpireCheckIntervalMs)>>

\* whether the options of traverse let an edge of this type be followed
TypeAllowed(opts, type) == ~opts.typesGiven \/ type \in opts.edgeTypes

RECURSIVE IncomingFrom(_, _, _, _)
\* traverse, incoming edges: the edges to id of the nodes listAllNodes
\* returns, node after node
IncomingFrom(c, opts, id, order) ==
    IF order = <<>> THEN <<>>
    ELSE LET other == LoadNode(c, Head(order))
             mine == IF other.outcome # "ok" THEN <<>>
                     ELSE SelectSeq(other.node.edges,
                                    LAMBDA e : e.to = id /\ TypeAllowed(opts, e.type))
         IN [k \in 1..Len(mine) |-> [edge |-> mine[k], targetId |-> Head(order)]]
            \o IncomingFrom(c, opts, id, Tail(order))

\* traverse: the edges to follow from a visited node
EdgesToFollow(c, opts, node) ==
    LET out == IF opts.direction = "in" THEN <<>>
               ELSE SelectSeq(node.edges, LAMBDA e : TypeAllowed(opts, e.type))
    IN [k \in 1..Len(out) |-> [edge |-> out[k], targetId |-> out[k].to]]
       \o (IF opts.direction \in {"in", "both"}
           THEN IncomingFrom(c, opts, node.id, ListingOrder) ELSE <<>>)

SeenNever(st, id) == FALSE

\* traverse: visited.has(id)
Seen(st, id) == id \in st.visited

NoEdge == [id |-> None, from |-> None, to |-> None, type |-> None]

RECURSIVE Visit(_, _, _, _, _, _, _)
RECURSIVE Follow(_, _, _, _, _, _, _)
\* traverse: the function visit.  st holds the visited ids, the results and
\* whether loadNode has thrown
Visit(c, opts, st, node, depth, path, edge) ==
    IF st.threw \/ depth > opts.maxDepth \/ Seen(st, node.id) THEN st
    ELSE LET st1 == [st EXCEPT
                        !.visited = @ \cup {node.id},
                        !.results = IF depth > 0 \/ opts.includeStart
                                    THEN Append(@, [node |-> node.id, depth |-> depth,
                                                    path |-> path, edge |-> edge])
                                    ELSE @]
         IN Follow(c, opts, st1, EdgesToFollow(c, opts, node), node, depth, path)

\* traverse: the loop of visit over the edges to follow
Follow(c, opts, st, todo, node, depth, path) ==
    IF todo = <<>> \/ st.threw THEN st
    ELSE LET target == LoadNode(c, Head(todo).targetId)
             st1 == IF target.outcome = "throws" THEN [st EXCEPT !.threw = TRUE]
                    ELSE IF target.outcome = "ok" /\ ~Seen(st, Head(todo).targetId)
                    THEN Visit(c, opts, st, target.node, depth + 1,
                               Append(path, node.id), Head(todo).edge)
                    ELSE st
         IN Follow(c, opts, st1, Tail(todo), node, depth, path)

\* Cube.traverse
TraverseOp(c, opts) ==
    LET startNode == LoadNode(c, opts.startNode)
        res == [op |-> "traverse", id |-> opts.startNode, opts |-> opts, ok |-> FALSE,
                threw |-> FALSE, error |-> None, emitted |-> <<>>, results |-> <<>>]
    IN IF startNode.outcome = "missing" THEN [res EXCEPT !.error = "Start node not found"]
       ELSE IF startNode.outcome = "throws"
       THEN [res EXCEPT !.threw = TRUE, !.error = "TypeError"]
       ELSE LET st == Visit(c, opts, [visited |-> {}, results |-> <<>>, threw |-> FALSE],
                            startNode.node, 0, <<>>, NoEdge)
            IN IF st.threw THEN [res EXCEPT !.threw = TRUE, !.error = "TypeError"]
               ELSE [res EXCEPT !.ok = TRUE, !.results = st.results]

\* ------------------------------------------------------------------------
\* Trigger manager
\* ------------------------------------------------------------------------
NoId == [type |-> None, title |-> None, ms |-> 0]

NoPCall ==
    [active |-> FALSE, sorted |-> <<>>, ti |-> 0, ai |-> 0, names |-> <<>>,
     activated |-> <<>>, phase |-> None, threw |-> FALSE]

\* the part of the state that event processing reads and writes
TrigWorld ==
    [triggers |-> triggers, pcalls |-> pcalls, tevents |-> tevents, tlog |-> tlog,
     c |-> Cube]

\* processEvent returns at once for the events of the trigger manager itself
IsTriggerErrorOnly(type) == type = "trigger.error"

IsTriggerEvent(type) == type = "trigger.fired" \/ type = "trigger.error"

TriggerIndex(trigs, id) ==
    IF \E k \in 1..Len(trigs) : trigs[k].id = id
    THEN CHOOSE k \in 1..Len(trigs) : trigs[k].id = id
    ELSE 0

\* trigger.priority ?? 0
Priority(id) ==
    IF "priority" \in DOMAIN TriggerConfigs[id] THEN TriggerConfigs[id].priority ELSE 0

\* the triggers in the order of their registration
SortByRegistration(ids) == ids

RECURSIVE SortByPriority(_)
\* getSortedTriggers: a stable sort by descending priority
SortByPriority(ids) ==
    IF ids = <<>> THEN <<>>
    ELSE LET rest == SortByPriority(Tail(ids))
             before == SelectSeq(rest, LAMBDA x : Priority(x) > Priority(Head(ids)))
             after == SelectSeq(rest, LAMBDA x : Priority(x) <= Priority(Head(ids)))
         IN before \o <<Head(ids)>> \o after

GetSortedTriggers(trigs) == SortByPriority([k \in 1..Len(trigs) |-> trigs[k].id])

EventMatchesTrigger(ev, id) == ev.type \in TriggerConfigs[id].event

\* checkCooldown
CheckCooldown(trig, ms) ==
    IF TriggerConfigs[trig.id].cooldownMs = 0 \/ trig.lastFiredAt = NoTime THEN TRUE
    ELSE ms - trig.lastFiredAt >= TriggerConfigs[trig.id].cooldownMs

\* getNodeFromEvent: only node.created and node.deleted carry a node
HasNode(ev) == ev.type \in {"node.created", "node.deleted"}

\* checkConditions, for a condition on the node type
CheckConditions(ev, id) ==
    IF TriggerConfigs[id].nodeType = None THEN TRUE
    ELSE IF ~HasNode(ev) THEN FALSE
    ELSE ev.nodeType = TriggerConfigs[id].nodeType

\* whether the loop of processEvent executes the registered trigger id
Eligible(st, ev, id, ms) ==
    LET k == TriggerIndex(st.triggers, id)
    IN /\ k # 0
       /\ st.triggers[k].enabled
       /\ EventMatchesTrigger(ev, id)
       /\ CheckCooldown(st.triggers[k], ms)
       /\ CheckConditions(ev, id)

RECURSIVE MarkStale(_, _)
\* the loop of the invalidate executor over the edges it has kept
MarkStale(c, edges) ==
    IF edges = <<>> THEN [c |-> c, threw |-> FALSE]
    ELSE LET r == UpdateOp(c, Head(edges).from, [field |-> "validity", value |-> "stale"])
         IN IF r.ret.threw THEN [c |-> r.c, threw |-> TRUE]
            ELSE MarkStale(r.c, Tail(edges))

\* the invalidate executor: the node is read with Cube.get, and of its own
\* edges those of type documents that point to the node itself are kept
InvalidateOp(c, nodeId) ==
    IF nodeId \notin NodeIds THEN [c |-> c, threw |-> FALSE]
    ELSE LET got == LoadNode(c, nodeId)
         IN IF got.outcome = "throws" THEN [c |-> c, threw |-> TRUE]
            ELSE IF got.outcome = "missing" THEN [c |-> c, threw |-> FALSE]
            ELSE MarkStale(c, SelectSeq(got.node.edges,
                                 LAMBDA e : e.type = "documents" /\ e.to = nodeId))

\* the action types that have an executor: three of the default ones, and
\* "fail", registered with registerActionExecutor, whose executor throws
HasExecutor(type) == type \in {"log", "create_node", "invalidate", "fail"}

TrigEvent(type, nodeId, nodeType, triggerId, source, actions, origin, depth, ms) ==
    [type |-> type, nodeId |-> nodeId, nodeType |-> nodeType, triggerId |-> triggerId,
     source |-> source, actions |-> actions, origin |-> origin, depth |-> depth,
     at |-> ms]

RECURSIVE ProcessStart(_, _, _, _)
RECURSIVE EmitAll(_, _, _, _, _)
RECURSIVE RunActions(_, _, _, _)
RECURSIVE NextTrigger(_, _, _, _, _)

\* the bus hands an event to the handler of the trigger manager, which runs
\* processEvent up to its first await
EmitToManager(st, event, ms) ==
    LET k == Len(st.tevents) + 1
        st1 == [st EXCEPT !.tevents = Append(@, event), !.pcalls = Append(@, NoPCall)]
    IN IF event.depth > TrigMaxDepth THEN st1 ELSE ProcessStart(st1, k, event.depth, ms)

\* the events a facade call has emitted are handed to the manager in turn
EmitAll(st, types, source, depth, ms) ==
    IF types = <<>> THEN st
    ELSE EmitAll(EmitToManager(st, TrigEvent(Head(types), NoId, SpawnInput.type, None,
                                             source, <<>>, "cube", depth, ms), ms),
                 Tail(types), source, depth, ms)

\* executeTrigger from action ai on: actions without an executor are skipped,
\* the next one is called and awaited; after the last one trigger.fired is
\* emitted
RunActions(st, k, depth, ms) ==
    LET call == st.pcalls[k]
        id == call.sorted[call.ti]
        actions == TriggerConfigs[id].actions
    IN IF call.ai > Len(actions)
       THEN EmitToManager([st EXCEPT !.pcalls[k].phase = "executed"],
                          TrigEvent("trigger.fired", NoId, None, id, k, call.names,
                                    "trigger", depth + 1, ms), ms)
       ELSE IF ~HasExecutor(actions[call.ai])
       THEN RunActions([st EXCEPT !.pcalls[k].ai = @ + 1], k, depth, ms)
       ELSE LET type == actions[call.ai]
                waiting == [st EXCEPT !.pcalls[k].phase = "action"]
            IN IF type = "fail" THEN [waiting EXCEPT !.pcalls[k].threw = TRUE]
               ELSE IF type = "invalidate"
               THEN LET r == InvalidateOp(st.c, st.tevents[k].nodeId)
                    IN [waiting EXCEPT !.c = r.c, !.pcalls[k].threw = r.threw]
               ELSE IF type = "create_node"
               THEN LET r == CreateOp(st.c, SpawnInput, ms)
                    IN EmitAll([waiting EXCEPT !.c = r.c], r.ret.emitted, k, depth + 1, ms)
               ELSE waiting

\* appendEvent called with the event alone
LogEntryBare(k, call) == [event |-> k, triggersActivated |-> <<>>]

\* the entry EventLog.appendEvent writes for event number k
LogEntry(k, call) == [event |-> k, triggersActivated |-> call.activated]

\* the loop of processEvent from position ti of its sorted triggers on: the
\* first trigger that passes the checks is executed; past the last one the
\* event is logged
NextTrigger(st, k, ti, depth, ms) ==
    LET call == st.pcalls[k]
    IN IF ti > Len(call.sorted)
       THEN [st EXCEPT !.pcalls[k].active = FALSE, !.pcalls[k].phase = "done",
                       !.pcalls[k].ti = ti,
                       !.tlog = Append(@, LogEntry(k, call))]
       ELSE IF Eligible(st, st.tevents[k], call.sorted[ti], ms)
       THEN RunActions([st EXCEPT !.pcalls[k].ti = ti, !.pcalls[k].ai = 1,
                                  !.pcalls[k].names = <<>>, !.pcalls[k].threw = FALSE],
                       k, depth, ms)
       ELSE NextTrigger(st, k, ti + 1, depth, ms)

\* processEvent up to its first await
ProcessStart(st, k, depth, ms) ==
    IF IsTriggerEvent(st.tevents[k].type) THEN st
    ELSE NextTrigger([st EXCEPT !.pcalls[k] =
                         [NoPCall EXCEPT !.active = TRUE,
                                         !.sorted = GetSortedTriggers(st.triggers)]],
                     k, 1, depth, ms)

NextAfterErrorHalt(call) == Len(call.sorted) + 1

\* after a trigger has failed the loop goes on with the trigger after it
NextAfterError(call) == call.ti + 1

\* processEvent is resumed after an await
ProcessResume(st, k, ms) ==
    LET call == st.pcalls[k]
        id == call.sorted[call.ti]
        depth == st.tevents[k].depth
    IN IF call.phase = "action"
       THEN IF call.threw
            THEN EmitToManager([st EXCEPT !.pcalls[k].phase = "errored"],
                               TrigEvent("trigger.error", NoId, None, id, k, <<>>,
                                         "trigger", depth + 1, ms), ms)
            ELSE RunActions([st EXCEPT !.pcalls[k].ai = @ + 1,
                                       !.pcalls[k].names =
                                           Append(@, TriggerConfigs[id].actions[call.ai])],
                            k, depth, ms)
       ELSE IF call.phase = "executed"
       THEN LET j == TriggerIndex(st.triggers, id)
                st1 == [st EXCEPT !.pcalls[k].activated = Append(@, id)]
                st2 == IF j = 0 THEN st1
                       ELSE [st1 EXCEPT !.triggers[j].lastFiredAt = ms]
            IN NextTrigger(st2, k, call.ti + 1, depth, ms)
       ELSE NextTrigger(st, k, NextAfterError(call), depth, ms)

\* a trigger manager after construction and start, with an event log
TrigFresh ==
    /\ triggers = <<>>
    /\ pcalls = <<>>
    /\ tevents = <<>>
    /\ tlog = <<>>

\* ------------------------------------------------------------------------
\* Specification of the orchestrator
\* ------------------------------------------------------------------------
NoRet == [op |-> None, ok |-> FALSE, error |-> None, claimedBy |-> None]

ClaimRet(op, res) ==
    [op |-> op, ok |-> res.success, error |-> res.error, claimedBy |-> res.claimedBy]

\* the state the operation leaves behind; a claim that ended keeps no expiry
Install(w) ==
    /\ registered' = w.reg
    /\ agentState' = w.ast
    /\ items' = w.items
    /\ retired' = w.retired
    /\ stats' = w.stats
    /\ nodes' = w.nodes

KeepExpiry(its) ==
    [t \in DOMAIN expiresAt |->
                     IF ItemIndex(its, t) # 0 /\ its[ItemIndex(its, t)].status = "claimed"
                     THEN expiresAt[t] ELSE NoTime]

\* ------------------------------------------------------------------------
\* EventLog: the files of the log and the operations on them
\* ------------------------------------------------------------------------
\* a path at which no file exists
NoLog == [exists |-> FALSE, lines |-> <<>>]

\* the suffixes i of the paths events.log.i
Suffixes == 0..(MaxRotateCount + 1)

DEFAULT_OPTIONS == [maxSizeBytes |-> 10485760, maxEvents |-> 10000, rotateCount |-> 3]

\* the directory .cube before any event is logged
NoLogs == [cur |-> NoLog, rot |-> [i \in Suffixes |-> NoLog]]

\* statSync(logPath).size
RECURSIVE SizeFrom(_, _)
SizeFrom(lines, k) ==
    IF k > Len(lines) THEN 0 ELSE lines[k].size + SizeFrom(lines, k + 1)

SizeOf(file) == SizeFrom(file.lines, 1)

\* the loop of rotate: events.log.i becomes events.log.(i+1), from i down to 1
RECURSIVE ShiftFrom(_, _, _)
ShiftFrom(rot, i, opts) ==
    IF i < 1 THEN rot
    ELSE ShiftFrom(IF rot[i].exists /\ opts.requireDefined
                   THEN [rot EXCEPT ![i + 1] = rot[i], ![i] = NoLog]
                   ELSE rot,
                   i - 1, opts)

\* the current log becomes events.log.1; where require is not defined the call
\* throws and the current log is truncated instead
RotateCurrent(fs, opts) ==
    IF ~fs.cur.exists THEN fs
    ELSE IF opts.requireDefined
         THEN [cur |-> NoLog, rot |-> [fs.rot EXCEPT ![1] = fs.cur]]
         ELSE [fs EXCEPT !.cur.lines = <<>>]

Rotate(fs, opts) ==
    LET n == opts.rotateCount
        dropped == IF fs.rot[n].exists /\ opts.requireDefined
                   THEN [fs.rot EXCEPT ![n] = NoLog] ELSE fs.rot
    IN RotateCurrent([fs EXCEPT !.rot = ShiftFrom(dropped, n - 1, opts)], opts)

NeedsRotation(fs, count, opts) ==
    \/ opts.maxSizeBytes > 0 /\ SizeOf(fs.cur) >= opts.maxSizeBytes
    \/ opts.maxEvents > 0 /\ count >= opts.maxEvents

\* the files and the count after checkRotation
CheckRotation(fs, count, opts) ==
    IF fs.cur.exists /\ NeedsRotation(fs, count, opts)
    THEN [fs |-> Rotate(fs, opts), count |-> 0]
    ELSE [fs |-> fs, count |-> count]

AppendOp(fs, count, opts, entry) ==
    LET r == CheckRotation(fs, count, opts)
    IN [fs |-> [r.fs EXCEPT !.cur = [exists |-> TRUE,
                                      lines |-> Append(r.fs.cur.lines, entry)]],
        count |-> r.count + 1]

\* the non-empty lines of the current log, parsed
ReadAll(fs) ==
    IF ~fs.cur.exists THEN <<>> ELSE fs.cur.lines

CountExistingEvents(fs) ==
    IF ~fs.cur.exists THEN 0 ELSE Len(fs.cur.lines)

\* no event log is in use
LogFresh ==
    /\ logFiles = NoLogs
    /\ eventCount = 0
    /\ logOptions = DEFAULT_OPTIONS @@ [requireDefined |-> TRUE]
    /\ appended = <<>>

QueueFresh ==
    /\ now = 0
    /\ ticks = 0
    /\ registered = <<>>
    /\ agentState = [a \in Agents |-> DefaultState]
    /\ items = <<>>
    /\ retired = {}
    /\ stats = [totalQueued |-> 0, totalClaimed |-> 0, totalCompleted |-> 0,
                totalFailed |-> 0]
    /\ nodes = [t \in Tasks |-> NoNode]
    /\ expiresAt = [t \in Tasks |-> NoTime]
    /\ ret = NoRet
    /\ emitted = <<>>

QInit == QueueFresh /\ BusFresh /\ CubeFresh /\ TrigFresh /\ LogFresh

\* time passes
Tick(d) ==
    /\ ticks < MaxTicks
    /\ now' = now + d
    /\ ticks' = ticks + 1
    /\ ret' = NoRet
    /\ UNCHANGED <<registered, agentState, items, retired, stats, nodes, expiresAt>>
    /\ UNCHANGED notq

\* Orchestrator.registerAgent -> AgentRegistry.register;
\* throws, changing nothing, when the id is registered already
RegisterAgent(a) ==
    /\ registered' = IF IsRegistered(registered, a) THEN registered
                     ELSE Append(registered, a)
    /\ ret' = NoRet
    /\ UNCHANGED <<now, ticks, agentState, items, retired, stats, nodes, expiresAt>>
    /\ UNCHANGED notq

\* Orchestrator.unregisterAgent -> AgentRegistry.unregister;
\* returns false for an unknown id, throws when the agent has claimed tasks
UnregisterAgent(a) ==
    /\ registered' = IF ~IsRegistered(registered, a) THEN registered
                     ELSE IF Len(agentState[a].claimedTasks) > 0 THEN registered
                     ELSE RemoveAt(registered, IndexOf(registered, a))
    /\ ret' = NoRet
    /\ UNCHANGED <<now, ticks, agentState, items, retired, stats, nodes, expiresAt>>
    /\ UNCHANGED notq

\* Orchestrator.agentHeartbeat -> AgentRegistry.heartbeat
AgentHeartbeat(a) ==
    /\ agentState' = IF ~IsRegistered(registered, a) THEN agentState
                     ELSE [agentState EXCEPT
                             ![a].lastHeartbeat = now,
                             ![a].status = IF @ = "offline" THEN "idle" ELSE @]
    /\ ret' = NoRet
    /\ UNCHANGED <<now, ticks, registered, items, retired, stats, nodes, expiresAt>>
    /\ UNCHANGED notq

\* Orchestrator.enqueue -> WorkQueue.enqueue
Enqueue(t, timeout) ==
    /\ stats.totalQueued < MaxQueued
    /\ Install(EnqueueOp(World, t, timeout))
    /\ ret' = NoRet
    /\ UNCHANGED <<now, ticks, expiresAt>>
    /\ UNCHANGED notq

\* Orchestrator.claim -> WorkQueue.claim
Claim(a, t, timeoutMs) ==
    /\ stats.totalClaimed < MaxClaimed
    /\ LET c == ClaimOp(World, a, t, timeoutMs)
       IN /\ Install(c.w)
          /\ expiresAt' = IF c.res.success
                          THEN [expiresAt EXCEPT ![t] = c.res.expiresAt]
                          ELSE expiresAt
          /\ ret' = ClaimRet("claim", c.res)
    /\ UNCHANGED <<now, ticks>>
    /\ UNCHANGED notq

\* Orchestrator.release -> WorkQueue.release
Release(a, t, reason, newStatus) ==
    /\ LET r == ReleaseOp(World, a, t, reason, newStatus)
       IN /\ Install(r.w)
          /\ expiresAt' = KeepExpiry(r.w.items)
          /\ ret' = [NoRet EXCEPT !.op = "release", !.ok = r.ok]
    /\ UNCHANGED <<now, ticks>>
    /\ UNCHANGED notq

\* Orchestrator.transfer -> WorkQueue.transfer
Transfer(from, to, t) ==
    /\ stats.totalClaimed < MaxClaimed
    /\ LET c == TransferOp(World, from, to, t)
       IN /\ Install(c.w)
          /\ expiresAt' = IF c.w = World THEN expiresAt ELSE [expiresAt EXCEPT ![t] = NoTime]
          /\ ret' = ClaimRet("transfer", c.res)
    /\ UNCHANGED <<now, ticks>>
    /\ UNCHANGED notq

\* the staleness timer: Orchestrator.checkStaleAgents
CheckStaleAgents ==
    /\ LET w == CheckStaleAgentsOp(World)
       IN /\ Install(w)
          /\ expiresAt' = KeepExpiry(w.items)
    /\ ret' = [NoRet EXCEPT !.op = "checkStaleAgents", !.ok = TRUE]
    /\ UNCHANGED <<now, ticks>>
    /\ UNCHANGED notq

\* the expiry timer: Orchestrator.checkExpiredClaims -> WorkQueue.checkExpired
CheckExpiredClaims ==
    /\ LET w == CheckExpiredOp(World).w
       IN /\ Install(w)
          /\ expiresAt' = KeepExpiry(w.items)
    /\ ret' = [NoRet EXCEPT !.op = "checkExpiredClaims", !.ok = TRUE]
    /\ UNCHANGED <<now, ticks>>
    /\ UNCHANGED notq

\* Orchestrator.dispatch; the claims it makes give no timeout
Dispatch(opts) ==
    /\ LET r == DispatchOp(World, opts)
       IN /\ r.w.stats.totalClaimed <= MaxClaimed
          /\ r.w.stats.totalQueued <= MaxQueued
          /\ Install(r.w)
          /\ expiresAt' = [t \in Tasks |->
                             IF \E k \in 1..Len(r.result.dispatched) :
                                    r.result.dispatched[k].taskId = t
                             THEN NoTime ELSE expiresAt[t]]
    /\ ret' = NoRet
    /\ UNCHANGED <<now, ticks>>
    /\ UNCHANGED notq

\* the registry and the work queue on their own (no graph connected, as in
\* the unit tests of the queue): enqueue, claim, release, transfer, expiry
QNext ==
    \/ \E d \in TickSteps : Tick(d)
    \/ \E a \in Agents : RegisterAgent(a)
    \/ \E a \in Agents : UnregisterAgent(a)
    \/ \E t \in Tasks, timeout \in {0, TimeoutMs} : Enqueue(t, timeout)
    \/ \E a \in Agents, t \in Tasks, timeoutMs \in {0, TimeoutMs} : Claim(a, t, timeoutMs)
    \/ \E a \in Agents, t \in Tasks, reason \in Reasons : Release(a, t, reason, None)
    \/ \E from, to \in Agents, t \in Tasks : Transfer(from, to, t)
    \/ CheckExpiredClaims

Spec == QInit /\ [][QNext]_vars

\* a pending task node, as Cube.create leaves it
TaskNode(t) ==
    [exists |-> TRUE, type |-> "task", status |-> "pending",
     priority |-> TaskInputs[t].priority, tags |-> TaskInputs[t].tags,
     assignedTo |-> None, lockedBy |-> None,
     dueGiven |-> FALSE, dueAt |-> 0, blocks |-> 0]

\* the orchestrator constructed over a graph that holds the pending tasks
OrchInit ==
    /\ now = 0
    /\ ticks = 0
    /\ registered = <<>>
    /\ agentState = [a \in Agents |-> DefaultState]
    /\ items = <<>>
    /\ retired = {}
    /\ stats = [totalQueued |-> 0, totalClaimed |-> 0, totalCompleted |-> 0,
                totalFailed |-> 0]
    /\ nodes = [t \in Tasks |-> TaskNode(t)]
    /\ expiresAt = [t \in Tasks |-> NoTime]
    /\ ret = NoRet
    /\ emitted = <<>>
    /\ LogFresh
    /\ BusFresh
    /\ CubeFresh
    /\ TrigFresh

\* the orchestrator with the graph connected: heartbeats, the staleness
\* timer and dispatch over the pending task nodes
OrchNext ==
    \/ \E d \in TickSteps : Tick(d)
    \/ \E a \in Agents : RegisterAgent(a)
    \/ \E a \in Agents : AgentHeartbeat(a)
    \/ \E t \in Tasks : Enqueue(t, 0)
    \/ \E a \in Agents, t \in Tasks : Claim(a, t, 0)
    \/ \E a \in Agents, t \in Tasks, reason \in {"completed", "timeout"}, ns \in NewStatuses :
          Release(a, t, reason, ns)
    \/ CheckStaleAgents
    \/ \E opts \in DispatchOptions : Dispatch(opts)

OrchSpec == OrchInit /\ [][OrchNext]_vars

\* ------------------------------------------------------------------------
\* Specification of the event bus
\* ------------------------------------------------------------------------
InstallBus(b) ==
    /\ subscriptions' = b.subscriptions
    /\ eventTypeIndex' = b.eventTypeIndex
    /\ paused' = b.paused
    /\ eventQueue' = b.eventQueue
    /\ events' = b.events
    /\ delivered' = b.delivered

\* the next id that on() hands out; 0 when the ids are used up
NextSubId ==
    IF \E id \in SubIds : subscriptions[id] = NoSub
    THEN CHOOSE id \in SubIds : /\ subscriptions[id] = NoSub
                                /\ \A j \in 1..(id - 1) : subscriptions[j] # NoSub
    ELSE 0

\* EventBus.on and EventBus.once
On(eventType, kind, once) ==
    /\ NextSubId # 0
    /\ InstallBus(OnOp(Bus, NextSubId, eventType, kind, once))
    /\ done' = NoDone
    /\ UNCHANGED <<calls, resuming>>
    /\ UNCHANGED notbus

\* EventBus.off
Off(id) ==
    /\ subscriptions[id] # NoSub
    /\ InstallBus(OffOp(Bus, id))
    /\ done' = NoDone
    /\ UNCHANGED <<calls, resuming>>
    /\ UNCHANGED notbus

\* a caller calls EventBus.emit and does not wait for the promise
Emit(eventType) ==
    /\ Len(events) < MaxEvents
    /\ LET ev == Len(events) + 1
           r == EmitBegin([Bus EXCEPT !.events = Append(@, eventType)], ev, FALSE)
       IN /\ InstallBus(r.b)
          /\ calls' = [calls EXCEPT ![ev] = r.call]
          /\ done' = r.done
    /\ UNCHANGED resuming
    /\ UNCHANGED notbus

\* the handler that the emit of event ev awaits settles
EmitStep(ev) ==
    /\ calls[ev].active
    /\ LET r == EmitContinue(Bus, calls[ev], ev)
       IN /\ InstallBus(r.b)
          /\ calls' = [calls EXCEPT ![ev] = r.call]
          /\ done' = r.done
          /\ resuming' = IF calls[ev].byResume /\ ~r.call.active
                         THEN [resuming EXCEPT !.waiting = FALSE]
                         ELSE resuming
    /\ UNCHANGED notbus

\* a caller calls EventBus.emitSync
EmitSync(eventType) ==
    /\ Len(events) < MaxEvents
    /\ InstallBus(EmitSyncOp([Bus EXCEPT !.events = Append(@, eventType)],
                             Len(events) + 1))
    /\ done' = NoDone
    /\ UNCHANGED <<calls, resuming>>
    /\ UNCHANGED notbus

\* EventBus.pause
Pause ==
    /\ ~paused
    /\ paused' = TRUE
    /\ done' = NoDone
    /\ UNCHANGED <<subscriptions, eventTypeIndex, eventQueue, events, calls,
                   resuming, delivered>>
    /\ UNCHANGED notbus

\* resume emits the event at position idx of its copy of the queue
ResumeEmit(b, queue, idx) ==
    LET r == EmitBegin(b, queue[idx], TRUE)
    IN /\ InstallBus(r.b)
       /\ calls' = [calls EXCEPT ![queue[idx]] = r.call]
       /\ resuming' = [active |-> TRUE, queue |-> queue, idx |-> idx,
                       waiting |-> r.call.active]
       /\ done' = r.done

\* a caller calls EventBus.resume: the bus is unpaused, the queue copied and
\* cleared, and the first queued event emitted
Resume ==
    /\ ~resuming.active
    /\ paused \/ eventQueue # <<>>
    /\ LET b == [Bus EXCEPT !.paused = FALSE, !.eventQueue = <<>>]
       IN IF eventQueue = <<>>
          THEN /\ InstallBus(b)
               /\ done' = [NoDone EXCEPT !.op = "resume"]
               /\ UNCHANGED <<calls, resuming>>
          ELSE ResumeEmit(b, eventQueue, 1)
    /\ UNCHANGED notbus

\* the emit that resume awaited has resolved: the next queued event is
\* emitted, or resume resolves
ResumeStep ==
    /\ resuming.active
    /\ ~resuming.waiting
    /\ IF resuming.idx < Len(resuming.queue)
       THEN ResumeEmit(Bus, resuming.queue, resuming.idx + 1)
       ELSE /\ resuming' = NoResume
            /\ done' = [NoDone EXCEPT !.op = "resume", !.queue = resuming.queue]
            /\ UNCHANGED <<subscriptions, eventTypeIndex, paused, eventQueue,
                           events, calls, delivered>>
    /\ UNCHANGED notbus

BusInit == QueueFresh /\ BusFresh /\ CubeFresh /\ TrigFresh /\ LogFresh

BusNext ==
    \/ \E eventType \in SubTypes, kind \in HandlerKinds, once \in BOOLEAN :
          On(eventType, kind, once)
    \/ \E id \in SubIds : Off(id)
    \/ \E eventType \in EventTypes : Emit(eventType)
    \/ \E ev \in EventIds : EmitStep(ev)
    \/ \E eventType \in EventTypes : EmitSync(eventType)
    \/ Pause
    \/ Resume
    \/ ResumeStep

BusSpec == BusInit /\ [][BusNext]_vars

\* ------------------------------------------------------------------------
\* Specification of the graph facade
\* ------------------------------------------------------------------------
InstallCube(c) ==
    /\ files' = c.files
    /\ idxNodes' = c.idxNodes
    /\ idxEdges' = c.idxEdges
    /\ idxTags' = c.idxTags

\* a caller's call of a facade operation with result r
CubeCall(r) ==
    /\ mutations < MaxMutations
    /\ InstallCube(r.c)
    /\ mutations' = mutations + (IF r.ret.ok THEN 1 ELSE 0)
    /\ cret' = r.ret

\* Cube.create at the present millisecond
CubeCreate(input) ==
    /\ CubeCall(CreateOp(Cube, input, now))
    /\ UNCHANGED notcube

\* Cube.update
CubeUpdate(id, updates) ==
    /\ CubeCall(UpdateOp(Cube, id, updates))
    /\ UNCHANGED notcube

\* Cube.delete
CubeDelete(id) ==
    /\ CubeCall(DeleteOp(Cube, id))
    /\ UNCHANGED notcube

\* Cube.link
CubeLink(fromId, type, toId) ==
    /\ CubeCall(LinkOp(Cube, fromId, type, toId))
    /\ UNCHANGED notcube

\* Cube.unlink
CubeUnlink(fromId, type, toId) ==
    /\ CubeCall(UnlinkOp(Cube, fromId, type, toId))
    /\ UNCHANGED notcube

\* Cube.rebuildIndex
CubeRebuildIndex ==
    /\ InstallCube(RebuildIndexOp(Cube))
    /\ cret' = [NoCubeRet EXCEPT !.op = "rebuildIndex", !.ok = TRUE]
    /\ UNCHANGED mutations
    /\ UNCHANGED notcube

CubeInit == QueueFresh /\ BusFresh /\ CubeFresh /\ TrigFresh /\ LogFresh

CubeNext ==
    \/ \E d \in TickSteps : Tick(d)
    \/ \E input \in NodeInputs : CubeCreate(input)
    \/ \E id \in NodeIds, updates \in UpdateInputs : CubeUpdate(id, updates)
    \/ \E id \in NodeIds : CubeDelete(id)
    \/ \E fromId, toId \in NodeIds, type \in EdgeTypes : CubeLink(fromId, type, toId)
    \/ \E fromId, toId \in NodeIds, type \in EdgeTypes : CubeUnlink(fromId, type, toId)
    \/ CubeRebuildIndex

CubeSpec == CubeInit /\ [][CubeNext]_vars


\* ------------------------------------------------------------------------
\* Specification of the trigger manager
\* ------------------------------------------------------------------------
InstallTrig(st) ==
    /\ triggers' = st.triggers
    /\ pcalls' = st.pcalls
    /\ tevents' = st.tevents
    /\ tlog' = st.tlog
    /\ InstallCube(st.c)

\* TriggerManager.register of a trigger that is not registered yet
TrigRegister(id) ==
    /\ Len(triggers) < MaxTriggers
    /\ TriggerIndex(triggers, id) = 0
    /\ triggers' = Append(triggers, [id |-> id, enabled |-> TRUE, lastFiredAt |-> NoTime])
    /\ UNCHANGED <<pcalls, tevents, tlog, cubevars, qvars, busvars, orchvars, logvars>>

\* TriggerManager.setEnabled
TrigSetEnabled(id, enabled) ==
    /\ TriggerIndex(triggers, id) # 0
    /\ triggers' = [triggers EXCEPT ![TriggerIndex(triggers, id)].enabled = enabled]
    /\ UNCHANGED <<pcalls, tevents, tlog, cubevars, qvars, busvars, orchvars, logvars>>

ExternalEvents == {k \in 1..Len(tevents) : tevents[k].origin = "external"}

\* the events one run can hand to the manager: those of the callers and one
\* trigger event per registered trigger for each of them
MaxCalls == MaxDelivered * (1 + MaxTriggers)

\* the types of the events the callers of the bus emit
ExternalTypes == {"node.created", "node.updated", "trigger.fired", "trigger.error"}

\* EventBus.emit or emitSync by a caller, of a node event about the stored
\* node id or of an event of the trigger manager's own types (id = NoId): the
\* handler that start has subscribed to every type is called at once
Deliver(type, id) ==
    /\ Cardinality(ExternalEvents) < MaxDelivered
    /\ IF type \in TriggerEventTypes THEN id = NoId ELSE id \in NodeIds /\ files[id].exists
    /\ InstallTrig(EmitToManager(TrigWorld,
                                 TrigEvent(type, id, id.type, None, 0, <<>>, "external", 0, now),
                                 now))
    /\ UNCHANGED <<mutations, cret, qvars, busvars, orchvars, logvars>>

\* an awaited promise of processEvent number k is settled and the call goes on
ProcessStep(k) ==
    /\ k \in 1..Len(pcalls)
    /\ pcalls[k].active
    /\ InstallTrig(ProcessResume(TrigWorld, k, now))
    /\ UNCHANGED <<mutations, cret, qvars, busvars, orchvars, logvars>>

\* the graph the trigger manager starts on: a code node, a doc node, and the
\* doc node linked to the code node by an edge of type documents
DocumentedGraph ==
    LET c1 == CreateOp(EmptyCube, CodeInput, 0)
        d1 == CreateOp(c1.c, DocInput, 0)
    IN LinkOp(d1.c, d1.ret.id, "documents", c1.ret.id).c

TrigInit ==
    /\ QueueFresh
    /\ LogFresh
    /\ BusFresh
    /\ TrigFresh
    /\ files = DocumentedGraph.files
    /\ idxNodes = DocumentedGraph.idxNodes
    /\ idxEdges = DocumentedGraph.idxEdges
    /\ idxTags = DocumentedGraph.idxTags
    /\ mutations = 0
    /\ cret = NoCubeRet

TrigNext ==
    \/ \E d \in TickSteps : Tick(d)
    \/ \E id \in TriggerIds : TrigRegister(id)
    \/ \E id \in Switchable, enabled \in BOOLEAN : TrigSetEnabled(id, enabled)
    \/ \E type \in ExternalTypes, id \in NodeIds \cup {NoId} : Deliver(type, id)
    \/ \E k \in 1..MaxCalls : ProcessStep(k)

TrigSpec == TrigInit /\ [][TrigNext]_vars


\* ------------------------------------------------------------------------
\* Properties of the work queue
\* ------------------------------------------------------------------------
LiveItem(t) == items[ItemIndex(items, t)]

IsClaimed(t) == ItemIndex(items, t) # 0 /\ LiveItem(t).status = "claimed"

IsQueued(t) == ItemIndex(items, t) # 0 /\ LiveItem(t).status = "queued"

HasFreeSlot(a) ==
    IsRegistered(registered, a) /\ Len(agentState[a].claimedTasks) < Capabilities(a).maxConcurrent

\* a claimed work item names one registered agent, and that agent alone lists the task
ClaimedHasOneClaimant ==
    \A i \in 1..Len(items) :
        IF items[i].status = "claimed"
        THEN /\ items[i].claimedBy \in Range(registered)
             /\ \A a \in Agents :
                   Contains(agentState[a].claimedTasks, items[i].taskId) <=> a = items[i].claimedBy
        ELSE items[i].claimedBy = None

\* what a claim by an agent with a free slot does to a task in the live table
ClaimIsExclusive(a, t) ==
    (HasFreeSlot(a) /\ ItemIndex(items, t) # 0) =>
        IF IsClaimed(t)
        THEN /\ ~ret'.ok
             /\ ret'.error = "Task already claimed"
             /\ ret'.claimedBy = LiveItem(t).claimedBy
             /\ UNCHANGED <<items, agentState, stats>>
        ELSE /\ ret'.ok
             /\ ret'.claimedBy = a
             /\ items' = [items EXCEPT ![ItemIndex(items, t)].status = "claimed",
                                       ![ItemIndex(items, t)].claimedBy = a,
                                       ![ItemIndex(items, t)].claimedAt = now]

\* C1: of the claims that agents with a free slot make on a queued task, the
\* first succeeds and every later one fails with "Task already claimed",
\* reports the claimant and changes nothing; a claimed item always has
\* exactly one claimant
C1_ExclusiveClaim ==
    /\ []ClaimedHasOneClaimant
    /\ [][\A a \in Agents, t \in Tasks, timeoutMs \in {0, TimeoutMs} :
            Claim(a, t, timeoutMs) => ClaimIsExclusive(a, t)]_qvars

\* a second agent was refused a task that another agent holds
C1_Witness ==
    /\ ret.op = "claim" /\ ~ret.ok /\ ret.error = "Task already claimed"
    /\ \E t \in Tasks : IsClaimed(t) /\ LiveItem(t).claimedBy = ret.claimedBy
    /\ \E a \in Agents : a # ret.claimedBy /\ HasFreeSlot(a)

HasId(its, id) == \E j \in 1..Len(its) : its[j].id = id

ItemById(its, id) == its[CHOOSE j \in 1..Len(its) : its[j].id = id]

\* the live table holds queued and claimed items only
LiveStatus == \A i \in 1..Len(items) : items[i].status \in {"queued", "claimed"}

\* what one step may do to the work items
ItemTransitions ==
    /\ \A i \in 1..Len(items) :
          LET it == items[i] IN
          IF HasId(items', it.id)
          THEN LET it2 == ItemById(items', it.id) IN
               \/ it2 = it
               \/ it.status = "queued" /\ it2.status = "claimed" /\ it2.claimedBy # None
               \/ /\ it.status = "claimed" /\ it2.status = "queued"
                  /\ it2.claimedBy = None /\ it2.claimedAt = NoTime
               \* a transfer releases and claims again
               \/ /\ it.status = "claimed" /\ it2.status = "claimed"
                  /\ \E from, to \in Agents : Transfer(from, to, it.taskId)
          ELSE /\ it.status = "claimed"
               /\ \E r \in retired' \ retired :
                     r.id = it.id /\ r.status \in {"completed", "failed"}
    /\ retired \subseteq retired'
    /\ \A j \in 1..Len(items') :
          ~HasId(items, items'[j].id) =>
              /\ items'[j].status = "queued"
              /\ \A r \in retired : r.id # items'[j].id

\* what a release by the claimant does, by reason
ReleaseOutcome(a, t, reason) ==
    (IsClaimed(t) /\ LiveItem(t).claimedBy = a) =>
        /\ ret'.ok
        /\ IF reason = "completed"
           THEN /\ ItemIndex(items', t) = 0
                /\ [id |-> LiveItem(t).id, status |-> "completed"] \in retired'
           ELSE IF reason = "error"
           THEN /\ ItemIndex(items', t) = 0
                /\ [id |-> LiveItem(t).id, status |-> "failed"] \in retired'
           ELSE /\ ItemIndex(items', t) # 0
                /\ items'[ItemIndex(items', t)] =
                      [LiveItem(t) EXCEPT !.status = "queued", !.claimedBy = None,
                                          !.claimedAt = NoTime]

\* C2: a work item goes queued -> claimed, claimed -> completed (release
\* reason completed), claimed -> failed (reason error) or claimed -> queued
\* (any other reason, claim fields cleared); completed and failed items leave
\* the live table for good and no queued item becomes completed or failed
C2_ItemLifecycle ==
    /\ []LiveStatus
    /\ [][/\ ItemTransitions
          /\ \A a \in Agents, t \in Tasks, reason \in Reasons :
                Release(a, t, reason, None) => ReleaseOutcome(a, t, reason)]_qvars

\* one work item has been released as completed and another as failed
C2_Witness ==
    /\ \E r \in retired : r.status = "completed"
    /\ \E r \in retired : r.status = "failed"

\* no agent holds more tasks than its maxConcurrent
WithinLimit ==
    \A a \in Agents :
        /\ Len(agentState[a].claimedTasks) <= Capabilities(a).maxConcurrent
        /\ Cardinality({i \in 1..Len(items) :
                           items[i].status = "claimed" /\ items[i].claimedBy = a})
              <= Capabilities(a).maxConcurrent

\* a claim by an agent at its limit is refused and changes nothing
RefusedAtLimit(a) ==
    (IsRegistered(registered, a)
       /\ Len(agentState[a].claimedTasks) >= Capabilities(a).maxConcurrent) =>
        /\ ~ret'.ok
        /\ ret'.error = "Agent at max concurrent tasks"
        /\ UNCHANGED <<items, agentState, stats, registered>>

\* C3: the number of tasks an agent holds never exceeds maxConcurrent, and a
\* claim by an agent at the limit fails with the max concurrent error and
\* changes neither the work item nor the agent
C3_MaxConcurrent ==
    /\ []WithinLimit
    /\ [][\A a \in Agents, t \in Tasks, timeoutMs \in {0, TimeoutMs} :
            Claim(a, t, timeoutMs) => RefusedAtLimit(a)]_qvars

\* an agent at its limit was refused a task that is still queued
C3_Witness ==
    /\ ret.op = "claim" /\ ~ret.ok /\ ret.error = "Agent at max concurrent tasks"
    /\ \E t \in Tasks : IsQueued(t)
    /\ \E a \in Agents : IsRegistered(registered, a) /\ ~HasFreeSlot(a)

\* C4: after a run of the expiry check no task is still claimed past the
\* expiry its claim was given (claim time + timeoutMs)
C4_ExpiredClaimReleased ==
    ret.op = "checkExpiredClaims" =>
        \A t \in Tasks : ~(IsClaimed(t) /\ expiresAt[t] # NoTime /\ now > expiresAt[t])

\* ------------------------------------------------------------------------
\* Properties of the orchestrator
\* ------------------------------------------------------------------------
HeartbeatIsStale(a) ==
    /\ agentState[a].lastHeartbeat # NoTime
    /\ now - agentState[a].lastHeartbeat > StaleThresholdMs

\* C5: after a run of the staleness check every registered agent whose
\* heartbeat is older than the threshold is offline and holds no claim
C5_StaleAgentOffline ==
    ret.op = "checkStaleAgents" =>
        \A a \in Range(registered) :
            HeartbeatIsStale(a) =>
                /\ agentState[a].status = "offline"
                /\ \A i \in 1..Len(items) : items[i].claimedBy # a

\* C6: in every state a dry run lists the assignments that the dispatch
\* with the same options then makes
C6_DryRunMatchesDispatch ==
    \A opts \in DispatchOptions :
        ~opts.dryRun =>
            DispatchOp(World, [opts EXCEPT !.dryRun = TRUE]).result.dispatched
                = DispatchOp(World, opts).result.dispatched

\* ------------------------------------------------------------------------
\* Properties of the event bus
\* ------------------------------------------------------------------------
\* how many times the handler of subscription id has been called
Invocations(id) == Cardinality({k \in 1..Len(delivered) : delivered[k][1] = id})

\* C7: a subscription made with once has its handler called for at most one
\* event, whatever emit and emitSync calls are made and however they overlap
C7_OnceAtMostOnce ==
    \A id \in SubIds : subscriptions[id].once => Invocations(id) <= 1

\* C8: no handler is given an event before an event that was emitted earlier
\* (events are numbered in the order of the emit calls)
C8_EmissionOrder ==
    \A j, k \in 1..Len(delivered) :
        (j < k /\ delivered[j][1] = delivered[k][1]) => delivered[j][2] <= delivered[k][2]

\* C9: once resume has resolved, none of the events it took from the queue
\* is still waiting in the queue
C9_ResumeDeliversQueued ==
    done.op = "resume" =>
        \A k \in 1..Len(done.queue) : ~Contains(eventQueue, done.queue[k])

\* the ids subscribed to eventType in the subscriptions map, in
\* registration order (ids are handed out in increasing order)
RECURSIVE RegisteredFor(_, _)
RegisteredFor(eventType, from) ==
    IF from > MaxSubs THEN <<>>
    ELSE (IF subscriptions[from].subscribed /\ subscriptions[from].eventType = eventType
          THEN <<from>> ELSE <<>>) \o RegisteredFor(eventType, from + 1)

ExpectedHandlers(eventType) == RegisteredFor(eventType, 1) \o RegisteredFor("*", 1)

\* the handlers called with event ev, in the order of the calls
RECURSIVE CalledWith(_, _)
CalledWith(log, ev) ==
    IF log = <<>> THEN <<>>
    ELSE (IF Head(log)[2] = ev THEN <<Head(log)[1]>> ELSE <<>>) \o CalledWith(Tail(log), ev)

Throwers(handlers) ==
    Cardinality({k \in 1..Len(handlers) : subscriptions[handlers[k]].kind = "throws"})

\* an emit on an unpaused bus works on the handlers subscribed at the call
EmitTakesSubscribed(eventType) ==
    LET ev == Len(events) + 1
    IN (Emit(eventType) /\ ~paused) =>
          /\ ExpectedHandlers(eventType) = <<>> =>
                (done'.op = "emit" /\ done'.ev = ev /\ done'.handlers = <<>>)
          /\ ExpectedHandlers(eventType) # <<>> =>
                /\ calls'[ev].active
                /\ calls'[ev].handlers = ExpectedHandlers(eventType)
                /\ done'.op = None

\* a resolved emit has called each of its handlers, in order, and has kept
\* the errors of those that failed
EmitCalledAll ==
    done.op = "emit" =>
        /\ CalledWith(delivered, done.ev) = done.handlers
        /\ done.invoked = Len(done.handlers)
        /\ done.errors = Throwers(done.handlers)

\* C10: emit on an unpaused bus calls every handler subscribed to the type
\* of the event or to '*' at the time of the call, those of the exact type
\* first and then the wildcard ones, each group in registration order, and
\* resolves after the last of them has settled; a handler that fails stops
\* neither the handlers after it nor the emit
C10_EmitDelivers ==
    /\ []EmitCalledAll
    /\ [][\A eventType \in EventTypes : EmitTakesSubscribed(eventType)]_vars

\* an emit has resolved after calling a failing handler of the exact type
\* and then a wildcard handler
C10_Witness ==
    /\ done.op = "emit"
    /\ Len(done.handlers) = 2
    /\ subscriptions[done.handlers[1]].kind = "throws"
    /\ subscriptions[done.handlers[1]].eventType = "A"
    /\ subscriptions[done.handlers[2]].eventType = "*"
    /\ done.handlers[1] > done.handlers[2]
    /\ CalledWith(delivered, done.ev) = done.handlers

\* ------------------------------------------------------------------------
\* Specification of the priority scenario: the work queue over three task
\* nodes
\* ------------------------------------------------------------------------
PrioInit ==
    /\ now = 0
    /\ ticks = 0
    /\ registered = <<>>
    /\ agentState = [a \in Agents |-> DefaultState]
    /\ items = <<>>
    /\ retired = {}
    /\ stats = [totalQueued |-> 0, totalClaimed |-> 0, totalCompleted |-> 0,
                totalFailed |-> 0]
    /\ \E in \in PrioNodeInputs :
          nodes = [t \in PrioTasks |->
                     [exists |-> TRUE, type |-> "task", status |-> "pending",
                      priority |-> in[t].priority, tags |-> {}, assignedTo |-> None,
                      lockedBy |-> None, dueGiven |-> in[t].dueGiven,
                      dueAt |-> in[t].dueAt, blocks |-> in[t].blocks]]
    /\ expiresAt = [t \in PrioTasks |-> NoTime]
    /\ ret = NoRet
    /\ emitted = <<>>
    /\ LogFresh
    /\ BusFresh
    /\ CubeFresh
    /\ TrigFresh

\* Orchestrator.enqueue -> WorkQueue.enqueue, of one of the three tasks
PrioEnqueue(t) ==
    /\ stats.totalQueued < Cardinality(PrioTasks)
    /\ LET w == EnqueueOp(World, t, 0)
       IN /\ Install(w)
          /\ ret' = [op |-> "enqueue", ok |-> TRUE, error |-> None, claimedBy |-> None,
                     taskId |-> t, item |-> w.items[ItemIndex(w.items, t)]]
    /\ UNCHANGED <<now, ticks, expiresAt>>
    /\ UNCHANGED notq

\* two hours pass, once
Later ==
    /\ ticks = 0
    /\ Tick(2 * HourMs)

\* Orchestrator.getNextWork -> WorkQueue.getNextFor
GetNextWork(a) ==
    /\ ret' = [op |-> "getNextFor", ok |-> GetNextFor(World, a) # None, error |-> None,
               claimedBy |-> None, agentId |-> a, next |-> GetNextFor(World, a)]
    /\ UNCHANGED <<now, ticks, registered, agentState, items, retired, stats, nodes,
                   expiresAt>>
    /\ UNCHANGED notq

PrioNext ==
    \/ \E a \in Agents : RegisterAgent(a)
    \/ Later
    \/ \E t \in PrioTasks : PrioEnqueue(t)
    \/ \E a \in Agents, t \in PrioTasks : Claim(a, t, 0)
    \/ \E a \in Agents, t \in PrioTasks : Release(a, t, "completed", None)
    \/ \E a \in Agents : GetNextWork(a)

PrioSpec == PrioInit /\ [][PrioNext]_vars

\* ------------------------------------------------------------------------
\* Specification of traversal
\* ------------------------------------------------------------------------
RECURSIVE EdgeList(_, _)
\* the edges of owner among a set of edges, as the list of its file
EdgeList(owner, edges) ==
    IF edges = {} THEN <<>>
    ELSE LET e == CHOOSE x \in edges : TRUE
         IN (IF e[1] = owner THEN <<[type |-> e[2], target |-> e[3]]>> ELSE <<>>)
            \o EdgeList(owner, edges \ {e})

\* a directory of node files written by hand, the edges lists in flow style:
\* the three nodes created at time 0 with the given edges
HandWritten(edges) ==
    [id \in NodeIds |->
        IF id.ms # 0 THEN NoFile
        ELSE [exists |-> TRUE, version |-> 1, status |-> "pending", validity |-> "current",
              tags |-> {}, edges |-> EdgeList(id, edges), flow |-> TRUE, content |-> ""]]

\* Cube.init on such a directory: the index is empty, so every listed node is
\* indexed
TravInit ==
    /\ QueueFresh
    /\ LogFresh
    /\ BusFresh
    /\ TrigFresh
    /\ \E edges \in SUBSET GraphEdges :
          LET c == RebuildIndexOp([EmptyCube EXCEPT !.files = HandWritten(edges)])
          IN /\ files = c.files
             /\ idxNodes = c.idxNodes
             /\ idxEdges = c.idxEdges
             /\ idxTags = c.idxTags
    /\ mutations = 0
    /\ cret = NoCubeRet

\* Cube.traverse
Traverse(opts) ==
    /\ cret' = TraverseOp(Cube, opts)
    /\ UNCHANGED <<files, idxNodes, idxEdges, idxTags, mutations>>
    /\ UNCHANGED notcube

TravNext ==
    \/ \E opts \in TraverseInputs : Traverse(opts)
    \/ \E id \in NodeIds : CubeDelete(id)
    \/ CubeUpdate(GenerateId("doc", "d", 0), [field |-> "content", value |-> "edited"])

TravSpec == TravInit /\ [][TravNext]_vars

\* ------------------------------------------------------------------------
\* Properties of the graph facade
\* ------------------------------------------------------------------------
HasEdge(id, type, toId) ==
    \E k \in 1..Len(files[id].edges) :
        files[id].edges[k].type = type /\ files[id].edges[k].target = toId

\* C17: for stored nodes a and b without an edge a-t->b, link then unlink
\* succeed and give back a's edge list and the edge rows of the index, and a
\* second link while the edge exists is refused as a conflict and changes
\* nothing
C17_LinkUnlinkRoundTrip ==
    \A a, b \in NodeIds, t \in EdgeTypes :
        (files[a].exists /\ files[b].exists /\ ~HasEdge(a, t, b)) =>
            LET l == LinkOp(Cube, a, t, b)
                u == UnlinkOp(l.c, a, t, b)
                l2 == LinkOp(l.c, a, t, b)
            IN /\ l.ret.ok
               /\ u.ret.ok
               /\ u.c.files[a].edges = files[a].edges
               /\ u.c.idxEdges = idxEdges
               /\ ~l2.ret.ok
               /\ l2.ret.error = "Edge already exists"
               /\ l2.c = l.c

\* the event each mutation of the graph is to emit
DomainEvent ==
    [create |-> "node.created", update |-> "node.updated", delete |-> "node.deleted",
     link |-> "edge.created", unlink |-> "edge.deleted"]

\* C18: a create, update, delete, link or unlink that succeeded has emitted
\* its domain event
C18_MutationEmitsEvent ==
    (cret.ok /\ cret.op \in DOMAIN DomainEvent) =>
        Contains(cret.emitted, DomainEvent[cret.op])

\* C19: in every state, a create leaves the file and the index row of every
\* stored node as they are
C19_CreateKeepsExisting ==
    \A input \in NodeInputs :
        LET r == CreateOp(Cube, input, now)
        IN \A id \in NodeIds :
              files[id].exists =>
                 /\ r.c.files[id] = files[id]
                 /\ r.c.idxNodes[id] = idxNodes[id]

\* C20: in every state, rebuildIndex leaves the node, edge and tag rows of
\* the index as they are
C20_RebuildKeepsIndex ==
    LET r == RebuildIndexOp(Cube)
    IN /\ r.idxNodes = idxNodes
       /\ r.idxEdges = idxEdges
       /\ r.idxTags = idxTags


\* ------------------------------------------------------------------------
\* Properties of the trigger manager
\* ------------------------------------------------------------------------
\* the trigger.fired events of trigger id for event number k
FiredFor(k, id) ==
    {j \in 1..Len(tevents) : /\ tevents[j].type = "trigger.fired"
                             /\ tevents[j].triggerId = id
                             /\ tevents[j].source = k
                             /\ tevents[j].origin = "trigger"}

\* the trigger.error events of trigger id for event number k
ErrorFor(k, id) ==
    {j \in 1..Len(tevents) : /\ tevents[j].type = "trigger.error"
                             /\ tevents[j].triggerId = id
                             /\ tevents[j].source = k
                             /\ tevents[j].origin = "trigger"}

\* the log entries of event number k
LogFor(k) == {j \in 1..Len(tlog) : tlog[j].event = k}

\* C11: two firings of a trigger that has a cooldown are at least the
\* cooldown apart
C11_CooldownWindow ==
    \A i, j \in 1..Len(tevents) :
        (/\ i < j
         /\ tevents[i].type = "trigger.fired" /\ tevents[i].origin = "trigger"
         /\ tevents[j].type = "trigger.fired" /\ tevents[j].origin = "trigger"
         /\ tevents[i].triggerId = tevents[j].triggerId
         /\ TriggerConfigs[tevents[i].triggerId].cooldownMs > 0) =>
            tevents[j].at - tevents[i].at >= TriggerConfigs[tevents[i].triggerId].cooldownMs

\* C12: once a node.updated event about a code node has been processed with
\* the code-changes trigger registered, the trigger has fired exactly once
\* for it with the action invalidate alone, the log entry of the event lists
\* the trigger, and every node that documents the code node is stale
C12_CodeChangeInvalidatesDocs ==
    \A k \in 1..Len(tevents) :
        (/\ tevents[k].type = "node.updated"
         /\ tevents[k].nodeId.type = "code"
         /\ pcalls[k].phase = "done"
         /\ Contains(pcalls[k].sorted, CodeChangesTrigger)) =>
            /\ Cardinality(FiredFor(k, CodeChangesTrigger)) = 1
            /\ \A j \in FiredFor(k, CodeChangesTrigger) : tevents[j].actions = <<"invalidate">>
            /\ Cardinality(LogFor(k)) = 1
            /\ \A j \in LogFor(k) : Contains(tlog[j].triggersActivated, CodeChangesTrigger)
            /\ \A d \in NodeIds :
                  HasEdge(d, "documents", tevents[k].nodeId) => files[d].validity = "stale"

C14_TriggerEventsInert ==
    /\ \A k \in 1..Len(tevents) :
          tevents[k].type \in TriggerEventTypes => pcalls[k] = NoPCall
    /\ \A j \in 1..Len(tevents) :
          tevents[j].origin = "trigger" =>
              tevents[tevents[j].source].type \notin TriggerEventTypes
    /\ \A j \in 1..Len(tlog) : tevents[tlog[j].event].type \notin TriggerEventTypes

\* a trigger that names trigger.fired among its events has fired, and its
\* trigger.fired event has been handed to the manager
C14_Witness ==
    \E k \in 1..Len(tevents) :
        /\ tevents[k].type = "trigger.fired"
        /\ tevents[k].origin = "trigger"
        /\ "trigger.fired" \in TriggerConfigs[tevents[k].triggerId].event
        /\ TriggerIndex(triggers, tevents[k].triggerId) # 0

\* the triggers after position p of processing k that match its event, have
\* no cooldown, pass their conditions and are never switched off
MatchingAfter(k, p) ==
    {q \in (p + 1)..Len(pcalls[k].sorted) :
        /\ pcalls[k].sorted[q] \notin Switchable
        /\ EventMatchesTrigger(tevents[k], pcalls[k].sorted[q])
        /\ CheckConditions(tevents[k], pcalls[k].sorted[q])
        /\ TriggerConfigs[pcalls[k].sorted[q]].cooldownMs = 0}

\* what the events and the log show of a trigger whose action threw: one
\* trigger.error event and no trigger.fired event for that event, the trigger
\* not among the activated ones; a trigger that has never fired has no
\* lastFiredAt; and once the event is processed, every matching trigger
\* after the failed one has fired or failed
ErrorRecorded ==
    /\ \A k \in 1..Len(tevents), id \in TriggerIds :
          ErrorFor(k, id) # {} =>
             /\ Cardinality(ErrorFor(k, id)) = 1
             /\ FiredFor(k, id) = {}
             /\ ~Contains(pcalls[k].activated, id)
             /\ \A j \in LogFor(k) : ~Contains(tlog[j].triggersActivated, id)
    /\ \A t \in 1..Len(triggers) :
          (\A k \in 1..Len(tevents) : FiredFor(k, triggers[t].id) = {}) =>
              triggers[t].lastFiredAt = NoTime
    /\ \A k \in 1..Len(tevents) :
          pcalls[k].phase = "done" =>
             \A p \in 1..Len(pcalls[k].sorted) :
                ErrorFor(k, pcalls[k].sorted[p]) # {} =>
                   \A q \in MatchingAfter(k, p) :
                      \/ FiredFor(k, pcalls[k].sorted[q]) # {}
                      \/ ErrorFor(k, pcalls[k].sorted[q]) # {}

\* the step in which processing k takes up the rejection of an action emits
\* one trigger.error event for the trigger, and leaves the activated
\* triggers of the processing and the lastFiredAt of every trigger as they
\* are
ErrorStep ==
    \A k \in 1..MaxCalls :
        (/\ k <= Len(pcalls)
         /\ pcalls[k].phase = "action"
         /\ pcalls[k].threw
         /\ pcalls'[k] # pcalls[k]) =>
            /\ triggers' = triggers
            /\ pcalls'[k].activated = pcalls[k].activated
            /\ Len(tevents') = Len(tevents) + 1
            /\ tevents'[Len(tevents')].type = "trigger.error"
            /\ tevents'[Len(tevents')].triggerId = pcalls[k].sorted[pcalls[k].ti]
            /\ tevents'[Len(tevents')].source = k

\* C15: if an action of a trigger throws, one trigger.error event is emitted
\* for the trigger and no trigger.fired event, the trigger is not listed as
\* activated, its lastFiredAt stays as it is, and the remaining matching
\* triggers are still evaluated for the same event
C15_ErrorIsolated == []ErrorRecorded /\ [][ErrorStep]_vars

\* an event has been processed to its end, the trigger with the failing
\* action has failed for it, and a trigger after it has fired for it
C15_Witness ==
    \E k \in 1..Len(tevents) :
        /\ pcalls[k].phase = "done"
        /\ ErrorFor(k, "faulty") # {}
        /\ \E id \in TriggerIds : id # "faulty" /\ FiredFor(k, id) # {}

\* C16: in every state, the invalidate action for a stored node X leaves
\* stale every node that has a documents edge to X, and leaves the validity
\* of every other node as it is
C16_InvalidateMarksDocs ==
    \A x \in NodeIds :
        files[x].exists =>
            LET r == InvalidateOp(Cube, x)
            IN \A n \in NodeIds :
                  IF HasEdge(n, "documents", x)
                  THEN r.c.files[n].validity = "stale"
                  ELSE r.c.files[n].validity = files[n].validity

\* ------------------------------------------------------------------------
\* Properties of versions, traversal and error results
\* ------------------------------------------------------------------------
\* C21: in every state, a create with one edge given inline to a stored node
\* stores its node with version 1
C21_CreateVersionOne ==
    \A input \in NodeInputs, to \in NodeIds :
        files[to].exists =>
            LET inline == [input EXCEPT !.edges = <<[type |-> "documents", to |-> to]>>]
                r == CreateOp(Cube, inline, now)
            IN r.ret.ok /\ r.c.files[r.ret.id].version = 1

\* whether an edge of an allowed type joins a to b in the direction asked for
Joined(opts, a, b) ==
    \E t \in EdgeTypes :
        /\ TypeAllowed(opts, t)
        /\ \/ opts.direction \in {"out", "both"} /\ HasEdge(a, t, b)
           \/ opts.direction \in {"in", "both"} /\ HasEdge(b, t, a)

\* what C22 asks of the results of one traverse call
TraverseSound(opts, results) ==
    /\ \A i, j \in 1..Len(results) : results[i].node = results[j].node => i = j
    /\ \A i \in 1..Len(results) :
          LET r == results[i]
              chain == Append(r.path, r.node)
          IN /\ files[r.node].exists
             /\ r.depth <= opts.maxDepth
             /\ Len(r.path) = r.depth
             /\ r.node = opts.startNode => (opts.includeStart /\ r.depth = 0 /\ r.edge = NoEdge)
             /\ r.depth > 0 => (chain[1] = opts.startNode /\ r.edge # NoEdge)
             /\ \A k \in 1..(Len(chain) - 1) : Joined(opts, chain[k], chain[k + 1])

\* C22: in every state and for all options, the results of a traverse that
\* returns hold each node at most once, only stored nodes, none deeper than
\* maxDepth, the start node only when includeStart is set, at depth 0 and
\* without an edge, and with each node a path of the length of its depth
\* that starts at the start node and goes along allowed edges in the
\* direction asked for
C22_TraverseSound ==
    \A opts \in TraverseInputs :
        LET r == TraverseOp(Cube, opts)
        IN r.ok => TraverseSound(opts, r.results)

\* a traverse has returned a node at depth 2 although a node it has visited
\* owns an edge to a deleted node, and the files are as they were at the call
C22_Witness ==
    /\ cret.op = "traverse"
    /\ cret.ok
    /\ cret = TraverseOp(Cube, cret.opts)
    /\ \E i \in 1..Len(cret.results) : cret.results[i].depth = 2
    /\ \E i \in 1..Len(cret.results), b \in NodeIds, t \in EdgeTypes :
          HasEdge(cret.results[i].node, t, b) /\ ~files[b].exists

\* C23: no call of a facade operation ends in an exception
C23_ErrorsAreValues == ~cret.threw

\* ------------------------------------------------------------------------
\* Properties of the priority scenario
\* ------------------------------------------------------------------------
\* the nodes of the scenario: t1 critical, t2 high and overdue by an hour, t3
\* high without a due date, none with an edge of type blocks
ScenarioNodes ==
    /\ nodes["t1"].priority = "critical"
    /\ nodes["t2"].dueGiven /\ nodes["t2"].dueAt = 0 - HourMs
    /\ nodes["t3"].blocks = 0

\* the tasks whose work item is queued
QueuedTasks == {items[i].taskId : i \in {j \in 1..Len(items) : items[j].status = "queued"}}

\* each of the three tasks has a work item or has had one
AllEnqueued == stats.totalQueued = Cardinality(PrioTasks)

\* an agent that getNextFor may give work to
CanTakeWork(a) == IsRegistered(registered, a) /\ ~AtMaxConcurrent(agentState, a)

\* C24: in the scenario getNextFor gives t2 while all three tasks are
\* queued, t1 once t2 is no longer queued, and t3 once t1 is no longer
\* queued either
C24_DueBoostDominates ==
    (ScenarioNodes /\ AllEnqueued) =>
        \A a \in Agents :
            CanTakeWork(a) =>
                /\ QueuedTasks = {"t1", "t2", "t3"} => GetNextFor(World, a) = "t2"
                /\ QueuedTasks = {"t1", "t3"} => GetNextFor(World, a) = "t1"
                /\ QueuedTasks = {"t3"} => GetNextFor(World, a) = "t3"

\* C24 as amended: in the scenario the work items have the priorities 1000,
\* 600 and 100, and getNextFor gives t1 while it is queued, t2 once t1 is no
\* longer queued, and t3 once t2 is no longer queued either
C24_CriticalFirst ==
    (ScenarioNodes /\ AllEnqueued) =>
        /\ \A i \in 1..Len(items) :
              items[i].priority = (CASE items[i].taskId = "t1" -> 1000
                                     [] items[i].taskId = "t2" -> 600
                                     [] OTHER -> 100)
        /\ \A a \in Agents :
              CanTakeWork(a) =>
                 /\ "t1" \in QueuedTasks => GetNextFor(World, a) = "t1"
                 /\ ("t1" \notin QueuedTasks /\ "t2" \in QueuedTasks) =>
                        GetNextFor(World, a) = "t2"
                 /\ QueuedTasks = {"t3"} => GetNextFor(World, a) = "t3"

\* in the scenario an agent has asked for work and got t2, t1 being claimed
C24_Witness ==
    /\ ScenarioNodes
    /\ AllEnqueued
    /\ QueuedTasks = {"t2", "t3"}
    /\ ret.op = "getNextFor"
    /\ ret.next = "t2"

\* ------------------------------------------------------------------------
\* Properties of enqueue and release
\* ------------------------------------------------------------------------
\* C25: enqueue of a task that has a work item in the live table returns
\* that item and changes nothing: the table (no second item; id, priority,
\* status, claimant and options of the item), the statistics, the agents
\* and the graph stay as they were
C25_EnqueueIdempotent ==
    [][(ret'.op = "enqueue" /\ ItemIndex(items, ret'.taskId) # 0) =>
           /\ ret'.item = items[ItemIndex(items, ret'.taskId)]
           /\ items' = items
           /\ stats' = stats
           /\ UNCHANGED <<registered, agentState, retired, nodes, expiresAt>>]_vars

\* enqueue has returned a claimed work item whose priority is no longer the
\* one calculatePriority gives for its node
C25_Witness ==
    /\ ret.op = "enqueue"
    /\ ret.item.status = "claimed"
    /\ ret.item.priority # CalculatePriority(nodes[ret.taskId])

\* the release of task t asked for by agent a is not the claimant's: the
\* task has no work item in the live table, or the item is not claimed, or
\* another agent holds the claim
NotTheClaimant(a, t) ==
    \/ ItemIndex(items, t) = 0
    \/ LiveItem(t).status # "claimed"
    \/ LiveItem(t).claimedBy # a

\* release refuses every request that is not the claimant's and hands the
\* queue, the registry and the graph back as they are
ForeignReleaseRefused ==
    \A a \in Agents, t \in Tasks, reason \in Reasons, ns \in NewStatuses :
        NotTheClaimant(a, t) =>
            /\ ~ReleaseOp(World, a, t, reason, ns).ok
            /\ ReleaseOp(World, a, t, reason, ns).w = World

\* a release that returns false changes nothing
RefusedReleaseStep ==
    (ret'.op = "release" /\ ~ret'.ok) =>
        UNCHANGED <<items, retired, registered, agentState, stats, nodes, expiresAt>>

\* C26: a release by an agent that is not the claimant of the work item, or
\* of a task that has no live work item or an unclaimed one, returns false
\* and leaves the work items, the agents, the statistics and the graph
\* nodes as they were
C26_ForeignReleaseRefused == []ForeignReleaseRefused /\ [][RefusedReleaseStep]_vars

\* a release has been refused while another agent holds a claim and the
\* node of the task is locked by that agent
C26_Witness ==
    /\ ret.op = "release"
    /\ ~ret.ok
    /\ \E i \in 1..Len(items) :
          /\ items[i].status = "claimed"
          /\ nodes[items[i].taskId].lockedBy = items[i].claimedBy
          /\ Len(agentState[items[i].claimedBy].claimedTasks) > 0
    /\ \E a \in Agents : IsRegistered(registered, a) /\ agentState[a].claimedTasks = <<>>

\* ------------------------------------------------------------------------
\* Specification of the orchestrator with the event bus set: each operation
\* with the events it gives to emitSync, and the two handlers setEventBus
\* subscribes for auto-enqueue
\* ------------------------------------------------------------------------
\* Orchestrator.emitEvent(type, data): the event handed to the bus
OrchEvent(type, taskId, agentId) == [type |-> type, taskId |-> taskId, agentId |-> agentId]

\* the events about graph nodes that reach the bus
NodeEvents ==
    ({"node.created", "node.updated"} \X Tasks \X {None})
        \cup ({"node.status_changed"} \X Tasks \X {"pending", "active"})

\* what an operation of the orchestrator leaves alone apart from its events
notorch == <<busvars, cubevars, trigvars, logvars>>

\* the graph holds the task t1 and the node t2, a task or a document
NotifyInit ==
    /\ now = 0
    /\ ticks = 0
    /\ registered = <<>>
    /\ agentState = [a \in Agents |-> DefaultState]
    /\ items = <<>>
    /\ retired = {}
    /\ stats = [totalQueued |-> 0, totalClaimed |-> 0, totalCompleted |-> 0,
                totalFailed |-> 0]
    /\ \E type \in {"task", "doc"} :
          nodes = [t \in Tasks |-> IF t = "t2" THEN [TaskNode(t) EXCEPT !.type = type]
                                   ELSE TaskNode(t)]
    /\ expiresAt = [t \in Tasks |-> NoTime]
    /\ ret = NoRet
    /\ emitted = <<>>
    /\ LogFresh
    /\ BusFresh
    /\ CubeFresh
    /\ TrigFresh

NotifyTick(d) ==
    /\ ticks < MaxTicks
    /\ now' = now + d
    /\ ticks' = ticks + 1
    /\ ret' = NoRet
    /\ emitted' = <<>>
    /\ UNCHANGED <<registered, agentState, items, retired, stats, nodes, expiresAt>>
    /\ UNCHANGED notorch

\* Orchestrator.registerAgent; register throws for a registered id
NotifyRegister(a) ==
    /\ registered' = IF IsRegistered(registered, a) THEN registered
                     ELSE Append(registered, a)
    /\ emitted' = IF IsRegistered(registered, a) THEN <<>>
                  ELSE <<OrchEvent("agent.registered", None, a)>>
    /\ ret' = [NoRet EXCEPT !.op = "registerAgent", !.ok = ~IsRegistered(registered, a)]
    /\ UNCHANGED <<now, ticks, agentState, items, retired, stats, nodes, expiresAt>>
    /\ UNCHANGED notorch

\* Orchestrator.enqueue, with the option timeout
NotifyEnqueue(t) ==
    /\ stats.totalQueued < MaxQueued
    /\ Install(EnqueueOp(World, t, TimeoutMs))
    /\ emitted' = <<OrchEvent("work.queued", t, None)>>
    /\ ret' = [NoRet EXCEPT !.op = "enqueue", !.ok = TRUE]
    /\ UNCHANGED <<now, ticks, expiresAt>>
    /\ UNCHANGED notorch

\* Orchestrator.claim
NotifyClaim(a, t) ==
    /\ stats.totalClaimed < MaxClaimed
    /\ LET c == ClaimOp(World, a, t, 0)
       IN /\ Install(c.w)
          /\ emitted' = IF c.res.success THEN <<OrchEvent("work.claimed", t, a)>> ELSE <<>>
          /\ ret' = ClaimRet("claim", c.res)
    /\ UNCHANGED <<now, ticks, expiresAt>>
    /\ UNCHANGED notorch

\* Orchestrator.release
NotifyRelease(a, t, reason) ==
    /\ LET r == ReleaseOp(World, a, t, reason, None)
           eventType == IF reason = "completed" THEN "work.completed"
                        ELSE IF reason = "error" THEN "work.failed"
                        ELSE "work.released"
       IN /\ Install(r.w)
          /\ emitted' = IF r.ok THEN <<OrchEvent(eventType, t, a)>> ELSE <<>>
          /\ ret' = [NoRet EXCEPT !.op = "release", !.ok = r.ok]
    /\ UNCHANGED <<now, ticks, expiresAt>>
    /\ UNCHANGED notorch

\* Orchestrator.transfer
NotifyTransfer(from, to, t) ==
    /\ stats.totalClaimed < MaxClaimed
    /\ LET c == TransferOp(World, from, to, t)
       IN /\ Install(c.w)
          /\ emitted' = IF c.res.success THEN <<OrchEvent("work.transferred", t, from)>>
                        ELSE <<>>
          /\ ret' = ClaimRet("transfer", c.res)
    /\ UNCHANGED <<now, ticks, expiresAt>>
    /\ UNCHANGED notorch

\* the expiry timer: Orchestrator.checkExpiredClaims emits work.expired for
\* each item checkExpired returns, with the claimant the item has by then
NotifyCheckExpired ==
    /\ LET r == CheckExpiredOp(World)
       IN /\ Install(r.w)
          /\ emitted' = [k \in 1..Len(r.expired) |->
                           OrchEvent("work.expired", r.expired[k].taskId,
                                     r.expired[k].claimedBy)]
    /\ ret' = [NoRet EXCEPT !.op = "checkExpiredClaims", !.ok = TRUE]
    /\ UNCHANGED <<now, ticks, expiresAt>>
    /\ UNCHANGED notorch

\* Orchestrator.dispatch: it enqueues through the queue and claims through
\* Orchestrator.claim
NotifyDispatch ==
    /\ LET r == DispatchOp(World, [dryRun |-> FALSE, maxTasks |-> 0, agentIds |-> {}])
       IN /\ r.w.stats.totalClaimed <= MaxClaimed
          /\ r.w.stats.totalQueued <= MaxQueued
          /\ Install(r.w)
          /\ emitted' = [k \in 1..Len(r.result.dispatched) |->
                           OrchEvent("work.claimed", r.result.dispatched[k].taskId,
                                     r.result.dispatched[k].agentId)]
    /\ ret' = [NoRet EXCEPT !.op = "dispatch", !.ok = TRUE]
    /\ UNCHANGED <<now, ticks, expiresAt>>
    /\ UNCHANGED notorch

\* the handlers setEventBus subscribes with autoEnqueue on
AutoEnqueues(type, id, newStatus) ==
    \/ type = "node.created" /\ nodes[id].type = "task" /\ nodes[id].status = "pending"
    \/ type = "node.status_changed" /\ newStatus = "pending"

\* an event about node id is emitted on the bus: node.created carries the
\* node, node.status_changed its id and new status
NodeEvent(type, id, newStatus) ==
    /\ nodes[id].exists
    /\ stats.totalQueued < MaxQueued
    /\ Install(IF AutoEnqueues(type, id, newStatus) THEN EnqueueOp(World, id, 0) ELSE World)
    /\ emitted' = <<>>
    /\ ret' = [op |-> type, ok |-> FALSE, error |-> None, claimedBy |-> None,
               nodeId |-> id, newStatus |-> newStatus]
    /\ UNCHANGED <<now, ticks, expiresAt>>
    /\ UNCHANGED notorch

NotifyNext ==
    \/ \E d \in TickSteps : NotifyTick(d)
    \/ \E a \in Agents : NotifyRegister(a)
    \/ \E t \in Tasks : NotifyEnqueue(t)
    \/ \E a \in Agents, t \in Tasks : NotifyClaim(a, t)
    \/ \E a \in Agents, t \in Tasks : NotifyRelease(a, t, "blocked")
    \/ \E from, to \in Agents, t \in Tasks : NotifyTransfer(from, to, t)
    \/ NotifyCheckExpired
    \/ NotifyDispatch
    \/ \E e \in NodeEvents : NodeEvent(e[1], e[2], e[3])

NotifySpec == NotifyInit /\ [][NotifyNext]_vars

\* ------------------------------------------------------------------------
\* Properties of the orchestrator with the event bus set
\* ------------------------------------------------------------------------
\* the step changes the registry or the work queue
Transition == ~UNCHANGED <<registered, agentState, items, retired, stats>>

\* the step puts a work item for task t into the live table
EntersQueue(t) == ItemIndex(items, t) = 0 /\ ItemIndex(items', t) # 0

\* the last operation has emitted an event of the type for task t
EmittedFor(log, type, t) ==
    \E k \in 1..Len(log) : log[k].type = type /\ log[k].taskId = t

\* C27: every transition of a work item or an agent through the orchestrator
\* emits an agent.* / work.* event, work.queued for a task that enters the
\* queue by enqueue, auto-enqueue or dispatch, and an operation that fails
\* or changes nothing emits none
C27_TransitionsEmit ==
    [][/\ Transition => emitted' # <<>>
       /\ \A t \in Tasks : EntersQueue(t) => EmittedFor(emitted', "work.queued", t)
       /\ ~Transition => emitted' = <<>>]_vars

\* the events of the type the last operation has emitted for task t
EventsFor(log, type, t) == {k \in 1..Len(log) : log[k].type = type /\ log[k].taskId = t}

\* the expiry check has taken the claim of the i-th work item away
ReleasedByCheck(i) ==
    /\ items[i].status = "claimed"
    /\ ItemIndex(items', items[i].taskId) # 0
    /\ items'[ItemIndex(items', items[i].taskId)].status = "queued"

\* C28: for every claim the expiry check releases, the check emits exactly
\* one work.expired event, and that event names the task and the agent that
\* held the claim
C28_ExpiredNamesHolder ==
    [][ret'.op = "checkExpiredClaims" =>
           \A i \in 1..Len(items) :
               ReleasedByCheck(i) =>
                   /\ Cardinality(EventsFor(emitted', "work.expired", items[i].taskId)) = 1
                   /\ \A k \in EventsFor(emitted', "work.expired", items[i].taskId) :
                          emitted'[k].agentId = items[i].claimedBy]_vars

\* the node event the step delivers should put its node into the queue
ShouldAutoEnqueue ==
    /\ nodes[ret'.nodeId].type = "task"
    /\ \/ ret'.op = "node.created" /\ nodes[ret'.nodeId].status = "pending"
       \/ ret'.op = "node.status_changed" /\ ret'.newStatus = "pending"

\* C29: with autoEnqueue on a node event puts only its own node into the
\* queue, and only if it is node.created for a pending task or
\* node.status_changed to pending for a task; such an event leaves its task
\* with a work item
C29_OnlyTasksAutoEnqueued ==
    [][ret'.op \in {"node.created", "node.updated", "node.status_changed"} =>
           /\ \A t \in Tasks : EntersQueue(t) => (t = ret'.nodeId /\ ShouldAutoEnqueue)
           /\ ShouldAutoEnqueue => ItemIndex(items', ret'.nodeId) # 0]_vars

\* ------------------------------------------------------------------------
\* Properties of the event log of the trigger manager
\* ------------------------------------------------------------------------
RECURSIVE FiredFrom(_, _)
\* the triggers of the trigger.fired events for event number k from event
\* number j on, in the order of the events
FiredFrom(k, j) ==
    IF j > Len(tevents) THEN <<>>
    ELSE (IF /\ tevents[j].type = "trigger.fired"
             /\ tevents[j].origin = "trigger"
             /\ tevents[j].source = k
          THEN <<tevents[j].triggerId>> ELSE <<>>) \o FiredFrom(k, j + 1)

\* processEvent number k has returned
Finished(calls_, k) == k <= Len(calls_) /\ calls_[k].phase = "done"

\* an event has one log entry once its processing has finished and none
\* before, and the entry lists the triggers that have fired for it in the
\* order in which they fired
LogMatchesFirings ==
    \A k \in 1..Len(tevents) :
        /\ Cardinality(LogFor(k)) = IF Finished(pcalls, k) THEN 1 ELSE 0
        /\ \A j \in LogFor(k) : tlog[j].triggersActivated = FiredFrom(k, 1)

\* the log only grows at its end, by the entries of the events whose
\* processing finishes in the step
LogStep ==
    /\ Len(tlog') >= Len(tlog)
    /\ SubSeq(tlog', 1, Len(tlog)) = tlog
    /\ \A j \in (Len(tlog) + 1)..Len(tlog') :
          ~Finished(pcalls, tlog'[j].event) /\ Finished(pcalls', tlog'[j].event)

\* C30: every event other than trigger.fired and trigger.error that has been
\* processed has exactly one log entry, written when the evaluation of the
\* triggers for it has finished; the entry lists the triggers that fired for
\* the event in firing order; the entries are in the order in which the
\* processing of their events finished
C30_LogPerEvent == []LogMatchesFirings /\ [][LogStep]_vars

\* two triggers have fired for one event, in the order of their priority
\* and against the order of their registration, and the entry of an event
\* handed in later stands before the entry of an earlier one
C30_Witness ==
    /\ \E j \in 1..Len(tlog) :
          /\ Len(tlog[j].triggersActivated) = 2
          /\ TriggerIndex(triggers, tlog[j].triggersActivated[1])
                > TriggerIndex(triggers, tlog[j].triggersActivated[2])
    /\ \E i, j \in 1..Len(tlog) : i < j /\ tlog[i].event > tlog[j].event

\* ------------------------------------------------------------------------
\* Properties of the order in which triggers are executed
\* ------------------------------------------------------------------------
RECURSIVE ExecutedFrom(_, _)
\* the triggers executed for event number k, read from the trigger.fired and
\* trigger.error events they end with, from event number j on
ExecutedFrom(k, j) ==
    IF j > Len(tevents) THEN <<>>
    ELSE (IF /\ tevents[j].type \in TriggerEventTypes
             /\ tevents[j].origin = "trigger"
             /\ tevents[j].source = k
          THEN <<tevents[j].triggerId>> ELSE <<>>) \o ExecutedFrom(k, j + 1)

\* descending priority, triggers of equal priority in registration order
InPriorityOrder(ids) ==
    \A i, j \in 1..Len(ids) :
        i < j => \/ Priority(ids[i]) > Priority(ids[j])
                 \/ /\ Priority(ids[i]) = Priority(ids[j])
                    /\ TriggerIndex(triggers, ids[i]) < TriggerIndex(triggers, ids[j])

\* the triggers of every event are taken in priority order, each at most
\* once, and a trigger that has fired has run its actions in listed order
ExecutedInOrder ==
    /\ \A k \in 1..Len(pcalls) :
          pcalls[k] # NoPCall =>
              /\ InPriorityOrder(pcalls[k].sorted)
              /\ \A i, j \in 1..Len(ExecutedFrom(k, 1)) :
                    i < j => IndexOf(pcalls[k].sorted, ExecutedFrom(k, 1)[i])
                                < IndexOf(pcalls[k].sorted, ExecutedFrom(k, 1)[j])
    /\ \A j \in 1..Len(tevents) :
          (tevents[j].type = "trigger.fired" /\ tevents[j].origin = "trigger") =>
              tevents[j].actions =
                  SelectSeq(TriggerConfigs[tevents[j].triggerId].actions, HasExecutor)

\* the position processEvent number k has reached in its sorted triggers
PositionOf(calls_, k) == IF k <= Len(calls_) THEN calls_[k].ti ELSE 0

\* when processEvent moves on in its list, the trigger before has ended
\* with trigger.fired or trigger.error, the triggers it passes over are
\* disabled or fail a check, and the trigger it starts is enabled and
\* passes the checks
StartsNextEligible ==
    \A k \in 1..Len(pcalls') :
        PositionOf(pcalls', k) # PositionOf(pcalls, k) =>
            /\ PositionOf(pcalls, k) # 0 => pcalls[k].phase \in {"executed", "errored"}
            /\ \A p \in (PositionOf(pcalls, k) + 1)..(PositionOf(pcalls', k) - 1) :
                  ~Eligible(TrigWorld, tevents'[k], pcalls'[k].sorted[p], now)
            /\ PositionOf(pcalls', k) <= Len(pcalls'[k].sorted) =>
                  Eligible(TrigWorld, tevents'[k],
                           pcalls'[k].sorted[PositionOf(pcalls', k)], now)

\* C31: for each event the enabled triggers that match it and pass cooldown
\* and conditions are executed in descending priority (none given: 0),
\* those of equal priority in registration order; the actions of a trigger
\* run in listed order and end before the next trigger starts; a disabled
\* trigger is not executed
C31_PriorityOrder == []ExecutedInOrder /\ [][StartsNextEligible]_vars

\* echo and relay, of equal priority, have been executed for one event in
\* the order of their registration, and for a later event of the same type
\* only relay, echo being disabled by then
C31_Witness ==
    \E k, m \in 1..Len(pcalls) :
        /\ k < m
        /\ ExecutedFrom(k, 1) = <<"echo", "relay">>
        /\ Finished(pcalls, m)
        /\ tevents[m].type = tevents[k].type
        /\ pcalls[m].sorted = pcalls[k].sorted
        /\ ExecutedFrom(m, 1) = <<"relay">>
        /\ ~triggers[TriggerIndex(triggers, "echo")].enabled

\* ------------------------------------------------------------------------
\* LogSpec: one event log over a directory: entries are appended, the log
\* is cleared, and a new EventLog is constructed over the same directory
\* ------------------------------------------------------------------------
LogInit ==
    /\ QueueFresh /\ BusFresh /\ CubeFresh /\ TrigFresh
    /\ logFiles = NoLogs
    /\ eventCount = CountExistingEvents(NoLogs)
    /\ logOptions \in [maxSizeBytes : MaxSizeOptions, maxEvents : MaxEventsOptions,
                       rotateCount : 0..MaxRotateCount, requireDefined : BOOLEAN]
    /\ appended = <<>>

notlog == <<qvars, busvars, cubevars, trigvars, orchvars>>

LogAppend(size) ==
    /\ Len(appended) < MaxAppends
    /\ LET entry == [n |-> Len(appended) + 1, size |-> size]
           r == AppendOp(logFiles, eventCount, logOptions, entry)
       IN /\ logFiles' = r.fs
          /\ eventCount' = r.count
          /\ appended' = Append(appended, entry)
    /\ UNCHANGED <<logOptions, notlog>>

LogClear ==
    /\ eventCount > 0
    /\ logFiles' = IF logFiles.cur.exists
                   THEN [logFiles EXCEPT !.cur.lines = <<>>] ELSE logFiles
    /\ eventCount' = 0
    /\ UNCHANGED <<logOptions, appended, notlog>>

\* new EventLog(cubePath, options) over the directory as it is
LogReopen ==
    /\ eventCount' = CountExistingEvents(logFiles)
    /\ UNCHANGED <<logFiles, logOptions, appended, notlog>>

LogNext ==
    \/ \E size \in LineSizes : LogAppend(size)
    \/ LogClear
    \/ LogReopen

LogSpec == LogInit /\ [][LogNext]_vars

\* the files of the log that exist
LogFileCount(fs) ==
    (IF fs.cur.exists THEN 1 ELSE 0)
        + Cardinality({i \in DOMAIN fs.rot : fs.rot[i].exists})

\* the last k entries handed to append, in order
LastAppended(k) ==
    SubSeq(appended, Len(appended) - k + 1, Len(appended))

FilesBounded == LogFileCount(logFiles) <= logOptions.rotateCount + 1

CurrentBounded ==
    logOptions.maxEvents > 0 => Len(logFiles.cur.lines) <= logOptions.maxEvents

ReadAllInOrder ==
    /\ Len(ReadAll(logFiles)) <= Len(appended)
    /\ ReadAll(logFiles) = LastAppended(Len(ReadAll(logFiles)))

\* C32: at most rotateCount + 1 files of the log exist, the current file
\* never holds more than maxEvents entries when maxEvents > 0, and readAll
\* returns the entries of the current file in the order they were appended
C32_RotationBounded ==
    /\ FilesBounded
    /\ CurrentBounded
    /\ ReadAllInOrder

\* the nodes Cube.create builds from its inputs
BuiltByCreate ==
    {AddEdges(CreateNode(in, ms), in.edges) : in \in NodeInputs, ms \in Times}

\* the nodes addEdge, removeEdge and updateNode build from those
BuiltByAddEdge ==
    {AddEdge(n, type, to) : n \in BuiltByCreate, type \in EdgeTypes, to \in NodeIds}

BuiltNodes ==
    BuiltByCreate \cup BuiltByAddEdge
        \cup {UpdateNode(n, u) : n \in BuiltByCreate, u \in UpdateInputs}
        \cup {RemoveEdge(n, n.edges[1].id) : n \in BuiltByAddEdge}

\* C33: a node built by create, update, addEdge or removeEdge and written
\* with nodeToMarkdown is read back by markdownToNode as the same node
C33_RoundTrip ==
    \A n \in BuiltNodes :
        files[n.id] = NodeToMarkdown(n)
            => LET d == MarkdownToNode(n.id, files[n.id])
               IN d.outcome = "ok" /\ d.node = n

\* an agent lists exactly the tasks whose live work item it has claimed
ClaimsAgree ==
    \A a \in Agents, t \in Tasks :
        Contains(agentState[a].claimedTasks, t)
            <=> (IsClaimed(t) /\ LiveItem(t).claimedBy = a)

WorkingWhileHolding ==
    \A a \in Agents :
        agentState[a].claimedTasks # <<>> => agentState[a].status = "working"

IdleAfterLastRelease ==
    \A a \in Agents :
        (agentState[a].claimedTasks # <<>> /\ agentState'[a].claimedTasks = <<>>)
            => agentState'[a].status = "idle"

TransferOutcome(from, to, t) ==
    LET c == TransferOp(World, from, to, t)
        i == ItemIndex(c.w.items, t)
    IN IF c.res.success
       THEN /\ i # 0
            /\ c.w.items[i].status = "claimed"
            /\ c.w.items[i].claimedBy = to
            /\ \A a \in Agents : Contains(c.w.ast[a].claimedTasks, t) <=> a = to
       ELSE c.w = World

\* C35: a transfer whose claim for the receiving agent fails leaves the task
\* claimed by the original agent and changes nothing; a transfer that
\* succeeds leaves the task claimed by the receiving agent only
C35_TransferAllOrNothing ==
    [][\A from, to \in Agents, t \in Tasks :
          Transfer(from, to, t) => TransferOutcome(from, to, t)]_vars

\* the node of task t is locked by, or in status claimed for, the agent
\* that has claimed the work item of t, and no other node is
NodeMirrorsItem(t) ==
    nodes[t].exists =>
        /\ nodes[t].lockedBy # None
               => (IsClaimed(t) /\ LiveItem(t).claimedBy = nodes[t].lockedBy)
        /\ nodes[t].status = "claimed" => IsClaimed(t)
        /\ IsClaimed(t) => (nodes[t].status = "claimed"
                               /\ nodes[t].lockedBy = LiveItem(t).claimedBy)

\* C36: the node of a task is locked by an agent and in status claimed only
\* while the work item is claimed by that agent; once the item is back in
\* status queued the node is neither locked nor claimed
C36_NodeMirrorsItem == \A t \in Tasks : NodeMirrorsItem(t)

\* ------------------------------------------------------------------------
\* RestartSpec: the queue and its registry, constructed again over the
\* workspace while agents hold claims
\* ------------------------------------------------------------------------
\* new Orchestrator(cubePath): the registry loads the configured agents and
\* the state file of each; the queue starts with no work item
Recreate ==
    /\ \E a \in Range(registered) : agentState[a].claimedTasks # <<>>
    /\ \A a \in Agents : agentState[a].tasksCompleted + agentState[a].tasksFailed < MaxClaimed
    /\ items' = <<>>
    /\ stats' = [totalQueued |-> 0, totalClaimed |-> 0, totalCompleted |-> 0,
                 totalFailed |-> 0]
    /\ expiresAt' = [t \in Tasks |-> NoTime]
    /\ ret' = [NoRet EXCEPT !.op = "recreate", !.ok = TRUE]
    /\ UNCHANGED <<now, ticks, registered, agentState, retired, nodes>>
    /\ UNCHANGED notq

RestartNext ==
    \/ \E a \in Agents : RegisterAgent(a)
    \/ \E a \in Agents : UnregisterAgent(a)
    \/ \E t \in Tasks : Enqueue(t, 0)
    \/ \E a \in Agents, t \in Tasks : Claim(a, t, 0)
    \/ \E a \in Agents, t \in Tasks, reason \in {"completed", "blocked"} :
          Release(a, t, reason, None)
    \/ Recreate

RestartSpec == QInit /\ [][RestartNext]_vars

\* C37: after the registry and the queue are constructed again over a
\* workspace, every task that the persisted state of an agent lists as
\* claimed can be released by that agent: release returns true
C37_ReleaseAfterRestart ==
    ret.op = "recreate" =>
        \A a \in Range(registered) :
            \A t \in Range(agentState[a].claimedTasks) :
                \A reason \in Reasons : ReleaseOp(World, a, t, reason, None).ok

\* the counters of every agent after a release by agent a for the reason
CountersAfterRelease(a, reason) ==
    \A b \in Agents :
        /\ agentState'[b].tasksCompleted = agentState[b].tasksCompleted
               + (IF ret'.ok /\ b = a /\ reason = "completed" THEN 1 ELSE 0)
        /\ agentState'[b].tasksFailed = agentState[b].tasksFailed
               + (IF ret'.ok /\ b = a /\ reason = "error" THEN 1 ELSE 0)

CountersKept ==
    \A b \in Agents :
        /\ agentState'[b].tasksCompleted = agentState[b].tasksCompleted
        /\ agentState'[b].tasksFailed = agentState[b].tasksFailed

\* C38: tasksCompleted of an agent grows only by its release of a task for
\* the reason completed and tasksFailed only by its release for the reason
\* error; a release that puts the item back in the queue (blocked, timeout,
\* reassign), a transfer and an expiry change neither
C38_CountersByReason ==
    [][/\ \A a \in Agents, t \in Tasks, reason \in Reasons :
             Release(a, t, reason, None) => CountersAfterRelease(a, reason)
       /\ (\A a \in Agents, t \in Tasks, reason \in Reasons :
              ~Release(a, t, reason, None)) => CountersKept]_vars

\* ------------------------------------------------------------------------
\* ReachSpec: traverse over four nodes, two of them joined to the start
\* node by a short and by a long path
\* ------------------------------------------------------------------------
CodeId == GenerateId("code", "c", 0)
DocId == GenerateId("doc", "d", 0)
SpawnId == GenerateId("task", "s", 0)
FarId == GenerateId("code", "c", StaleThresholdMs + ExpireCheckIntervalMs)

ReachNodes == {CodeId, DocId, SpawnId, FarId}

ReachEdges ==
    {<<CodeId, "documents", DocId>>, <<CodeId, "documents", SpawnId>>,
     <<DocId, "documents", SpawnId>>, <<SpawnId, "documents", FarId>>,
     <<FarId, "depends-on", DocId>>}

Reverse(s) == [k \in 1..Len(s) |-> s[Len(s) + 1 - k]]

\* node files written by hand; the edges of each file in one order or in
\* the opposite order
Linked(edges, reversed) ==
    [id \in NodeIds |->
        IF id \notin ReachNodes THEN NoFile
        ELSE [exists |-> TRUE, version |-> 1, status |-> "pending", validity |-> "current",
              tags |-> {},
              edges |-> IF reversed THEN Reverse(EdgeList(id, edges))
                        ELSE EdgeList(id, edges),
              flow |-> TRUE, content |-> ""]]

ReachInit ==
    /\ QueueFresh
    /\ LogFresh
    /\ BusFresh
    /\ TrigFresh
    /\ \E edges \in SUBSET ReachEdges, reversed \in BOOLEAN :
          LET c == RebuildIndexOp([EmptyCube EXCEPT !.files = Linked(edges, reversed)])
          IN /\ files = c.files
             /\ idxNodes = c.idxNodes
             /\ idxEdges = c.idxEdges
             /\ idxTags = c.idxTags
    /\ mutations = 0
    /\ cret = NoCubeRet

ReachNext ==
    \/ \E opts \in TraverseInputs : Traverse(opts)
    \/ \E id \in {DocId, FarId} : CubeDelete(id)

ReachSpec == ReachInit /\ [][ReachNext]_vars

RECURSIVE Within(_, _)
\* the stored nodes that at most k allowed edges join to the start node
Within(opts, k) ==
    IF k = 0 THEN {id \in {opts.startNode} : files[id].exists}
    ELSE LET near == Within(opts, k - 1)
         IN near \cup {b \in NodeIds :
                          files[b].exists /\ \E a \in near : Joined(opts, a, b)}

TraverseComplete(opts, results) ==
    \A b \in Within(opts, opts.maxDepth) :
        (b # opts.startNode \/ opts.includeStart)
            => \E i \in 1..Len(results) : results[i].node = b

\* C39: the results of a traverse that has returned hold every stored node
\* that at most maxDepth edges of the allowed types join to the start node
\* in the direction asked for, whatever the order of the edges in the files
\* and whether or not a longer path leads to the node too
C39_TraverseComplete ==
    (cret.op = "traverse" /\ cret.ok /\ cret = TraverseOp(Cube, cret.opts))
        => TraverseComplete(cret.opts, cret.results)

\* ------------------------------------------------------------------------
\* Cube.query: through the index and through the files
\* ------------------------------------------------------------------------
\* filter.hasEdge left out
NoHasEdge == [type |-> None, direction |-> None]

\* the filters the callers of query give; None and {} for a key left out
QueryFilters ==
    [type : {None, "code"}, status : {None, "pending"}, validity : {None, "current"},
     tags : {{}, {"src"}}, tagsAny : {{}, {"src"}},
     hasEdge : {NoHasEdge} \cup [type : EdgeTypes, direction : {"out", "in", "both"}]]

\* the conditions of both queries on the columns of a node
MatchesColumns(filter, type, status, validity) ==
    /\ filter.type # None => type = filter.type
    /\ filter.status # None => status = filter.status
    /\ filter.validity # None => validity = filter.validity

\* SqliteIndex.query: the ids of the rows the statement selects
IndexQuery(c, filter) ==
    {id \in NodeIds :
        /\ c.idxNodes[id].indexed
        /\ MatchesColumns(filter, id.type, c.idxNodes[id].status, c.idxNodes[id].validity)
        /\ \A tag \in filter.tags : [node |-> id, tag |-> tag] \in c.idxTags
        /\ filter.tagsAny # {}
               => \E tag \in filter.tagsAny : [node |-> id, tag |-> tag] \in c.idxTags
        /\ filter.hasEdge # NoHasEdge
               => \E e \in c.idxEdges :
                      /\ e.type = filter.hasEdge.type
                      /\ IF filter.hasEdge.direction = "out" THEN e.from = id
                         ELSE e.to = id}

\* Cube.applyFilter on one node
ApplyFilter(node, filter) ==
    /\ MatchesColumns(filter, node.id.type, node.status, node.validity)
    /\ filter.tags \subseteq node.tags
    /\ filter.tagsAny # {} => filter.tagsAny \cap node.tags # {}
    /\ filter.hasEdge # NoHasEdge
           => \E k \in 1..Len(node.edges) :
                  /\ node.edges[k].type = filter.hasEdge.type
                  /\ CASE filter.hasEdge.direction = "out" -> node.edges[k].from = node.id
                       [] filter.hasEdge.direction = "in" -> node.edges[k].to = node.id
                       [] OTHER -> TRUE

\* Cube.query: the ids of the nodes returned, with and without the index;
\* a node file that cannot be read makes the query through the index fail
QueryOp(c, filter, indexed) ==
    IF indexed
    THEN LET ids == IndexQuery(c, filter)
         IN IF \E id \in ids : LoadNode(c, id).outcome = "throws"
            THEN [ok |-> FALSE, ids |-> {}]
            ELSE [ok |-> TRUE, ids |-> {id \in ids : LoadNode(c, id).outcome = "ok"}]
    ELSE [ok |-> TRUE, ids |-> {n.id : n \in {m \in ListAllNodes(c) : ApplyFilter(m, filter)}}]

\* C40: in every state and for every filter, query returns the same set of
\* node ids through the index as through the scan of the files
C40_IndexMatchesScan ==
    \A filter \in QueryFilters :
        QueryOp(Cube, filter, TRUE) = QueryOp(Cube, filter, FALSE)

====
